---- MODULE Spec2Model ----
(***************************************************************************)
(* honopang: request helpers for Hono handlers.                            *)
(*                                                                         *)
(*   SpecGate    createNextHandlerIfAuthorization (src/src/createHandler.ts)*)
(*   SpecTracer  createRaceLoggerOnNocoDB         (src/src/createHook.ts)   *)
(*   SpecParams  parseParams            (src/src/contextResponse.ts:504-572)*)
(*   SpecRender  responseJsonError, responseTextError, responseHtmlError   *)
(*                                      (src/src/contextResponse.ts:36-160)*)
(*   SpecContext the same renderers with a Context and a verbose flag      *)
(*                                             (src/unnamed/part_003:24-97)*)
(*   SpecClone   raceLogger.clone         (src/src/createHook.ts:295-303)  *)
(*   SpecStatus  the StatusError constructor (src/unnamed/part_001:55-104) *)
(*   SpecPair    two invocations of a tracer in flight at once             *)
(*                                        (src/src/createHook.ts:191-292)  *)
(*                                                                         *)
(* JavaScript values are records of one shape (JsValue below), so that a   *)
(* validator result, a thrown value, an operation result or a request     *)
(* parameter can be any of boolean, string, number, null, undefined,       *)
(* object, File, Error or StatusError.                                     *)
(***************************************************************************)
EXTENDS Integers, Sequences, FiniteSets, TLC

VARIABLES
    \* ---- authentication gate: one invocation of the returned handler ----
    authorization,   \* c.req.header("Authorization"): [present, value]
    validator,       \* behaviour of validateToken: [kind, value]
    nextBehaviour,   \* behaviour of next(): "resolves" | "rejects" | "throws"
    gPc,             \* position of the handler
    token,           \* let token (createHandler.ts:29)
    validateCalls,   \* arguments validateToken was invoked with, in order
    nextCalls,       \* number of invocations of next()
    responses,       \* responses rendered through c.json, in order
    gateOutcome,     \* settlement of the promise the handler returned
    consoleError,    \* labels of the console.error calls, in order
    \* ---- execution tracer: one invocation of raceLogger ----
    config,          \* CreateRaceProps the tracer was created with
    race,            \* settlement of the promise of the wrapped operation
    now,             \* Date.now()
    tPc,             \* position of raceLogger
    raceLog,         \* the RaceLog object of this invocation
    utilCalls,       \* number of calls made through utils so far
    callerOutcome,   \* settlement of the promise raceLogger returned
    sendPc,          \* position of sendRaceLog
    sendCalls,       \* number of times sendRaceLog was called
    sendData,        \* const sendData of sendRaceLog
    stderrOfRace,    \* the stderr lines the operation itself had appended when it settled
    settledLog,      \* raceLog as it was when sendRaceLog was called
    sendPromise,     \* settlement of the promise sendRaceLog returned
    posted,          \* requests handed to fetch, in order
    fetched,         \* status of the Response fetch resolved to (0: none yet)
    consoleLog,      \* console.log calls of sendRaceLog, in order
    sendFaults,      \* failures the token source, fetch and response.text() produced
    \* ---- parameter extractor: one call of parseParams ----
    request,         \* what c.req answers: [query, contentType, json, formData]
    options,         \* ParseOptions: [requires, selects], each [given, list]
    pPc,             \* position of parseParams
    params,          \* let params (contextResponse.ts:514)
    parseTrace,      \* what parseParams did, in order: reads of c.req, fields examined, projection
    parseOutcome,    \* settlement of the promise parseParams returned
    \* ---- error renderer: one call of a response*Error function ----
    thrown,          \* the error value handed to the renderer
    mode,            \* "json" | "text" | "html"
    hook,            \* the transform or template argument: [kind, ...]
    rPc,             \* position of the renderer
    rendered,        \* how the call ended: [state, response, error]
    renderLog,       \* console.error calls of the renderer, in order
    \* ---- error renderers with a Context: calls of one response*Error(c, error, ..., verbose) ----
    ctxError,        \* the error handed to the renderer
    ctxMode,         \* "json" | "text" | "template"
    ctxTemplate,     \* the template argument of responseTemplateError
    ctxCalls,        \* the calls made so far: [verbose, response, logs]
    \* ---- raceLogger.clone: one tracer and one clone of it ----
    parentProps,     \* CreateRaceProps the parent was created with
    overrides,       \* the argument of clone: per field [given, value]
    cloneProps,      \* CreateRaceProps clone passed to createRaceLoggerOnNocoDB
    cloneMade,       \* clone was called
    cloneRequests,   \* requests handed to fetch, in order: [by, request]
    \* ---- StatusError: one construction ----
    seMessage,       \* first argument: [type, number, text]
    seStatus,        \* second argument: [given, value]
    seResult,        \* the constructed error (undefined before)
    \* ---- two invocations in flight: of one tracer, or of it and a clone ----
    pairProps,       \* CreateRaceProps of the tracer of each invocation
    pairNow,         \* Date.now()
    pairPc,          \* position of each invocation
    pairLogs,        \* raceLog of each invocation
    pairSend,        \* sendData of each invocation
    pairWritten,     \* what each invocation passed to its utils, and when it began
    pairPosted       \* requests handed to fetch, in order: [by, request]

gateVars == <<authorization, validator, nextBehaviour, gPc, token, validateCalls,
              nextCalls, responses, gateOutcome, consoleError>>

tracerVars == <<config, race, now, tPc, raceLog, utilCalls, callerOutcome, sendPc,
                sendCalls, sendData, stderrOfRace, settledLog, sendPromise, posted, fetched,
                consoleLog, sendFaults>>

paramsVars == <<request, options, pPc, params, parseTrace, parseOutcome>>

renderVars == <<thrown, mode, hook, rPc, rendered, renderLog>>

contextVars == <<ctxError, ctxMode, ctxTemplate, ctxCalls>>

\* the components added to the four above
cloneVars == <<parentProps, overrides, cloneProps, cloneMade, cloneRequests>>

statusVars == <<seMessage, seStatus, seResult>>

pairVars == <<pairProps, pairNow, pairPc, pairLogs, pairSend, pairWritten, pairPosted>>

restVars == <<contextVars, cloneVars, statusVars, pairVars>>

\* the other components of restVars
outsideContext == <<cloneVars, statusVars, pairVars>>
outsideClone == <<contextVars, statusVars, pairVars>>
outsideStatus == <<contextVars, cloneVars, pairVars>>
outsidePair == <<contextVars, cloneVars, statusVars>>

vars == <<gateVars, tracerVars, paramsVars, renderVars, restVars>>

-----------------------------------------------------------------------------
(* JavaScript values *)

JsValue(type, bool, str, message, status, stack) ==
    [type |-> type, bool |-> bool, str |-> str, message |-> message,
     status |-> status, stack |-> stack]

Undefined == JsValue("undefined", FALSE, "", "", 0, "")
Null == JsValue("null", FALSE, "", "", 0, "")
Bool(b) == JsValue("boolean", b, "", "", 0, "")
Str(s) == JsValue("string", FALSE, s, "", 0, "")
\* a number, by its decimal digits
Num(digits) == JsValue("number", FALSE, digits, "", 0, "")
\* a plain object { message } (no stack, no status)
Obj(message) == JsValue("object", FALSE, "", message, 0, "")
\* new Error(message): message and a stack, no status property
Error(message) == JsValue("Error", FALSE, "", message, 0, "stack of " \o message)

\* default of the constructor's second parameter
DefaultStatus == 500

\* new StatusError(message, status) with a string message
StatusError(message, status) ==
    JsValue("StatusError", FALSE, "", message, status, "stack of " \o message)

\* result instanceof StatusError
InstanceOfStatusError(v) == v.type = "StatusError"

\* error instanceof Error
InstanceOfError(v) == v.type \in {"Error", "StatusError"}

\* 'status' in error, for an Error | StatusError
HasStatus(v) == v.type = "StatusError"

-----------------------------------------------------------------------------
(* Error renderer, as the gate calls it: responseJsonError(c, error, verbose) *)

\* c.json({ error: error.message }, status)
responseJsonError(error, verbose) ==
    LET status == IF HasStatus(error) THEN error.status ELSE 500
    IN  [response |-> [status |-> status, body |-> [error |-> error.message]],
         logged |-> IF verbose THEN <<"[ERROR] responeOfError:">> ELSE <<>>]

-----------------------------------------------------------------------------
(* Authentication gate *)

\* authorization.startsWith("Bearer ")
StartsWithBearer(s) == Len(s) >= 7 /\ SubSeq(s, 1, 7) = "Bearer "

\* mutant: the token keeps the blank that ends the prefix
Substring6(s) == SubSeq(s, 7, Len(s))

\* authorization.substring(7)
Substring7(s) == SubSeq(s, 8, Len(s))

\* mutant: only an undefined header counts as missing
NotAuthorizationUndefinedOnly(h) == ~h.present

\* !authorization: the header is undefined or the empty string
NotAuthorization(h) == ~h.present \/ h.value = ""

NoHeader == [present |-> FALSE, value |-> ""]
Header(s) == [present |-> TRUE, value |-> s]

Headers ==
    {NoHeader, Header(""), Header("Bearer "), Header("Bearer abc"),
     Header("Bearer a b"), Header("Basic dXNlcjpwYXNz"), Header("Bearer"),
     Header("bearer abc"), Header(" Bearer abc")}

ValidatorBehaviours ==
    {[kind |-> "resolves", value |-> Bool(TRUE)],
     [kind |-> "resolves", value |-> Bool(FALSE)],
     [kind |-> "resolves", value |-> StatusError("Token expired", 401)],
     [kind |-> "resolves", value |-> StatusError("Quota exceeded", 429)],
     [kind |-> "resolves", value |-> Str("unexpected")],
     [kind |-> "resolves", value |-> Str("true")],
     [kind |-> "resolves", value |-> Null],
     [kind |-> "resolves", value |-> Undefined],
     [kind |-> "rejects", value |-> Error("Network timeout")],
     [kind |-> "rejects", value |-> StatusError("Authorization required", 401)],
     [kind |-> "throws", value |-> Error("Database connection failed")],
     [kind |-> "throws", value |-> StatusError("Authorization required", 401)]}

NextBehaviours == {"resolves", "rejects", "throws"}

NotCalled == [state |-> "none", value |-> Undefined]
Pending == [state |-> "pending", value |-> Undefined]
Fulfilled(v) == [state |-> "fulfilled", value |-> v]
Rejected(e) == [state |-> "rejected", value |-> e]

\* what the continuation's promise settles to
NextValue == Undefined
NextError == Error("downstream failed")

GateInputs ==
    /\ authorization \in Headers
    /\ validator \in ValidatorBehaviours
    /\ nextBehaviour \in NextBehaviours
    /\ gPc = "start"
    /\ token = Null
    /\ validateCalls = <<>>
    /\ nextCalls = 0
    /\ responses = <<>>
    /\ gateOutcome = Pending
    /\ consoleError = <<>>

\* mutant: the outer catch answers every failure with a fresh 500
OuterCatchUniform(error, logs) ==
    LET r == [status |-> 500, body |-> [error |-> "Internal Server Error"]]
    IN  /\ responses' = Append(responses, r)
        /\ gateOutcome' = Fulfilled(r)
        /\ consoleError' = consoleError \o logs
        /\ gPc' = "done"

\* catch (error) { return responseJsonError(c, error, false) }: the handler's
\* promise is fulfilled with the rendered response
OuterCatch(error, logs) ==
    LET r == responseJsonError(error, FALSE)
    IN  /\ responses' = Append(responses, r.response)
        /\ gateOutcome' = Fulfilled(r.response)
        /\ consoleError' = consoleError \o logs \o r.logged
        /\ gPc' = "done"

\* mutant: the inner catch rethrows what it caught
InnerCatchRethrow(e, logs) ==
    LET r == responseJsonError(e, FALSE)
    IN  /\ responses' = Append(responses, r.response)
        /\ gateOutcome' = Fulfilled(r.response)
        /\ consoleError' = consoleError \o logs \o r.logged
        /\ gPc' = "done"

\* catch (e) of the inner try: log e, then throw a fresh StatusError, which the
\* outer catch renders
InnerCatch(e, logs) ==
    OuterCatch(StatusError("Internal Server Error", 500),
               logs \o <<"Error occurred during authorization:">>)

\* mutant: the tests for true and false are swapped
InnerTrySwapped(kind, result) ==
    IF kind \in {"rejects", "throws"} THEN
        [continue |-> FALSE, thrown |-> result, logs |-> <<>>]
    ELSE IF result = Bool(TRUE) THEN
        [continue |-> FALSE, thrown |-> StatusError("Authorization format invaild", 401),
         logs |-> <<>>]
    ELSE
        [continue |-> TRUE, thrown |-> Undefined, logs |-> <<>>]

\* the body of the inner try once validateToken has settled (or thrown):
\* either next() is to be called, or a value is thrown to the inner catch
InnerTry(kind, result) ==
    IF kind \in {"rejects", "throws"} THEN
        [continue |-> FALSE, thrown |-> result, logs |-> <<>>]
    ELSE IF InstanceOfStatusError(result) THEN
        [continue |-> FALSE, thrown |-> result, logs |-> <<>>]
    ELSE IF result = Bool(FALSE) THEN
        [continue |-> FALSE, thrown |-> StatusError("Authorization format invaild", 401),
         logs |-> <<>>]
    ELSE IF result = Bool(TRUE) THEN
        [continue |-> TRUE, thrown |-> Undefined, logs |-> <<>>]
    ELSE
        [continue |-> FALSE,
         thrown |-> StatusError("Internal Server Error: Unexpected authorization process", 500),
         logs |-> <<"Unexpected authorization process:">>]

\* the handler from its entry to its first await
GateEnter ==
    /\ gPc = "start"
    /\ UNCHANGED <<authorization, validator, nextBehaviour, nextCalls>>
    /\ UNCHANGED <<tracerVars, paramsVars, renderVars, restVars>>
    /\ IF NotAuthorization(authorization)
       THEN /\ OuterCatch(StatusError("Authorization required", 403), <<>>)
            /\ UNCHANGED <<token, validateCalls>>
       ELSE IF StartsWithBearer(authorization.value)
       THEN /\ token' = Str(Substring7(authorization.value))
            /\ validateCalls' = Append(validateCalls, Substring7(authorization.value))
            /\ IF validator.kind = "throws"
               THEN LET t == InnerTry(validator.kind, validator.value)
                    IN  InnerCatch(t.thrown, t.logs)
               ELSE /\ gPc' = "awaitValidate"
                    /\ UNCHANGED <<responses, gateOutcome, consoleError>>
       ELSE /\ OuterCatch([StatusError("Authorization format invaild", DefaultStatus)
                              EXCEPT !.status = 401], <<>>)
            /\ UNCHANGED <<token, validateCalls>>

\* the handler after `await validateToken(token)` settles
GateValidated ==
    /\ gPc = "awaitValidate"
    /\ UNCHANGED <<authorization, validator, nextBehaviour, token, validateCalls>>
    /\ UNCHANGED <<tracerVars, paramsVars, renderVars, restVars>>
    /\ LET t == InnerTry(validator.kind, validator.value) IN
       IF t.continue
       THEN /\ nextCalls' = nextCalls + 1
            /\ IF nextBehaviour = "throws"
               THEN InnerCatch(NextError, <<>>)
               ELSE /\ gPc' = "awaitNext"
                    /\ UNCHANGED <<responses, gateOutcome, consoleError>>
       ELSE /\ InnerCatch(t.thrown, t.logs)
            /\ UNCHANGED nextCalls

\* `return next()`: the handler's promise follows the continuation's promise
GateNextSettled ==
    /\ gPc = "awaitNext"
    /\ gateOutcome' = IF nextBehaviour = "resolves"
                      THEN Fulfilled(NextValue) ELSE Rejected(NextError)
    /\ gPc' = "done"
    /\ UNCHANGED <<authorization, validator, nextBehaviour, token, validateCalls,
                   nextCalls, responses, consoleError>>
    /\ UNCHANGED <<tracerVars, paramsVars, renderVars, restVars>>

-----------------------------------------------------------------------------
(* Execution tracer *)

\* Date.now() advances at most this far
MaxClock == 2
\* calls made through utils in one invocation
MaxUtilCalls == 2

\* String(c)
JsString(v) ==
    CASE v.type \in {"string", "number"} -> v.str
      [] v.type = "boolean" -> IF v.bool THEN "true" ELSE "false"
      [] v.type = "undefined" -> "undefined"
      [] v.type = "null" -> "null"
      [] v.type \in {"Error", "StatusError"} -> "Error: " \o v.message
      [] OTHER -> "[object Object]"

\* the value is truthy
Truthy(v) ==
    CASE v.type = "string" -> v.str # ""
      [] v.type = "number" -> v.str # "0"
      [] v.type = "boolean" -> v.bool
      [] v.type \in {"undefined", "null"} -> FALSE
      [] OTHER -> TRUE

\* reading a property of null or undefined throws a TypeError
Nullish(v) == v.type \in {"null", "undefined"}
TypeError(message) == Error(message)

\* error.message
MessageOf(v) ==
    IF v.type \in {"Error", "StatusError", "object"} THEN Str(v.message) ELSE Undefined

\* error.stack
StackOf(v) ==
    IF v.type \in {"Error", "StatusError"} THEN Str(v.stack) ELSE Undefined

\* array.join(sep)
RECURSIVE Join(_, _)
Join(texts, sep) ==
    IF texts = <<>> THEN ""
    ELSE IF Len(texts) = 1 THEN texts[1]
    ELSE texts[1] \o sep \o Join(Tail(texts), sep)

\* `${n}` for a non-negative integer
Digits == <<"0", "1", "2", "3", "4", "5", "6", "7", "8", "9">>
RECURSIVE NumToString(_)
NumToString(n) ==
    IF n < 10 THEN Digits[n + 1]
    ELSE NumToString(n \div 10) \o Digits[(n % 10) + 1]

\* Object.assign(target, source)
ObjectAssign(target, source) ==
    [k \in DOMAIN target \cup DOMAIN source |->
        IF k \in DOMAIN source THEN source[k] ELSE target[k]]

\* const recordTopic = topic || "undefined"
recordTopic(props) == IF props.topic = "" THEN "undefined" ELSE props.topic

\* utils.stdout(...texts)
UtilsStdout(log, texts) ==
    [log EXCEPT !.stdout = Append(@, Join([i \in DOMAIN texts |-> JsString(texts[i])], " "))]

\* utils.stderr(...texts)
UtilsStderr(log, texts) ==
    [log EXCEPT !.stderr = Append(@, Join([i \in DOMAIN texts |-> JsString(texts[i])], " "))]

\* utils.assignDetail(setObject)
UtilsAssignDetail(log, setObject) ==
    [log EXCEPT !.detail = ObjectAssign(@, setObject)]

\* DateTime.fromMillis(begin_at, { zone }).toFormat("yyyy-MM-dd HH:mm:ss"):
\* the instant to the second, in the zone
FormatTime(millis, zone) == [second |-> millis \div 1000, zone |-> zone]

\* new URL(path, base) accepts the base
ValidBase(base) ==
    \/ Len(base) > 8 /\ SubSeq(base, 1, 8) = "https://"
    \/ Len(base) > 7 /\ SubSeq(base, 1, 7) = "http://"

\* new URL(`/api/v2/tables/${nocoDbTableId}/records`, nocoDbHostUrl)
PostUrl(props) == props.baseUrl \o "/api/v2/tables/" \o props.tableId \o "/records"

TokenSources ==
    {[kind |-> "literal", settle |-> "value", value |-> Str("tok")],
     [kind |-> "literal", settle |-> "value", value |-> Str("")],
     [kind |-> "function", settle |-> "value", value |-> Str("tok")],
     [kind |-> "function", settle |-> "value", value |-> Str("")],
     [kind |-> "function", settle |-> "value", value |-> Undefined],
     [kind |-> "function", settle |-> "value", value |-> Bool(TRUE)],
     [kind |-> "function", settle |-> "throws", value |-> Error("vault sealed")],
     [kind |-> "function", settle |-> "rejects", value |-> Error("vault timeout")]}

BaseUrls == {"https://nocodb.example.com", "nocodb"}

RaceResults == {Num("42"), Undefined}

RaceThrowables ==
    {Error("boom"), StatusError("Test error logging", 500), Obj("plain failure"),
     Str("oops"), Null, Undefined}

StdoutTexts == {<<Str("start")>>, <<Str("took"), Num("5"), Bool(TRUE)>>}
StderrTexts == {<<Str("warn")>>}
DetailObjects == {[userCount |-> Num("3")], [userCount |-> Num("4")]}

ResponseStatuses == {200, 201, 204, 404, 500}

FetchOutcomes ==
    {[kind |-> "rejects", status |-> 0]}
        \cup {[kind |-> "response", status |-> st] : st \in ResponseStatuses}

TracerInputs ==
    /\ config \in [xcToken : TokenSources, baseUrl : BaseUrls, tableId : {"table_123"},
                   topic : {"user-api", ""}, timezone : {"Asia/Seoul"}]
    /\ race = Pending
    /\ now = 0
    /\ tPc = "new"
    /\ raceLog = <<>>
    /\ utilCalls = 0
    /\ callerOutcome = NotCalled
    /\ sendPc = "idle"
    /\ sendCalls = 0
    /\ sendData = <<>>
    /\ stderrOfRace = <<>>
    /\ settledLog = <<>>
    /\ sendPromise = NotCalled
    /\ posted = <<>>
    /\ fetched = 0
    /\ consoleLog = <<>>
    /\ sendFaults = <<>>

\* mutant: no catch, the failure leaves sendRaceLog as a rejection
SendCatchRethrow(error) ==
    /\ sendPromise' = Rejected(error)
    /\ sendPc' = "done"
    /\ UNCHANGED consoleLog

\* mutant: the catch block waits for something that never settles
SendCatchNeverReturns(error) ==
    /\ sendPromise' = Pending
    /\ sendPc' = "idle"
    /\ UNCHANGED consoleLog

\* catch (error) { console.log(...) } finally { return true }
SendCatch(error) ==
    /\ consoleLog' = Append(consoleLog,
          [message |-> "Error RaceLoggerOnNocoDB "
                          \o (IF InstanceOfError(error) THEN error.message
                              ELSE JsString(error)),
           status |-> IF InstanceOfStatusError(error) THEN error.status ELSE 500])
    /\ sendPromise' = Fulfilled(Bool(TRUE))
    /\ sendPc' = "done"

\* the try block ran to its end: finally { return true }
SendReturn ==
    /\ sendPromise' = Fulfilled(Bool(TRUE))
    /\ sendPc' = "done"
    /\ UNCHANGED consoleLog

\* fetch(postUrl, { method: "POST", headers, body: JSON.stringify([sendData]) }):
\* the request of a tracer created with props
FetchRequest(props, data, detail, headerXcToken) ==
    [url |-> PostUrl(props),
     xcToken |-> headerXcToken.str,
     body |-> <<[topic |-> data.topic, begin_at |-> data.begin_at,
                 duration |-> data.duration, detail |-> detail,
                 stdout |-> data.stdout, stderr |-> data.stderr]>>]

\* mutant: no check of the resolved token
InvalidTokenNever(headerXcToken) == FALSE

\* !headerXcToken || typeof headerXcToken !== "string"
InvalidToken(headerXcToken) == ~Truthy(headerXcToken) \/ headerXcToken.type # "string"

\* sendRaceLog from the token check to `await fetch(...)`; sendData.detail is
\* the raceLog.detail object itself, serialised here by JSON.stringify
SendRequest(data, detail, headerXcToken) ==
    IF InvalidToken(headerXcToken)
    THEN /\ SendCatch(StatusError("Invalid xcToken for NocoDB", 400))
         /\ UNCHANGED posted
    ELSE /\ posted' = Append(posted, FetchRequest(config, data, detail, headerXcToken))
         /\ sendPromise' = Pending
         /\ sendPc' = "awaitFetch"
         /\ UNCHANGED consoleLog

\* const sendData, but for detail, which stays the raceLog.detail object
SendDataOf(props, log, time) ==
    [topic |-> log.topic,
     begin_at |-> FormatTime(log.begin_at, props.timezone),
     duration |-> time - log.begin_at,
     stdout |-> Join(log.stdout, "\n"),
     stderr |-> Join(log.stderr, "\n")]

\* sendRaceLog() from its call to its first await (or to its end)
sendRaceLog(log) ==
    LET data == SendDataOf(config, log, now)
    IN  /\ sendCalls' = sendCalls + 1
        /\ sendData' = data
        /\ IF ~ValidBase(config.baseUrl) THEN
                /\ SendCatch(TypeError("Invalid URL"))
                /\ UNCHANGED <<posted, sendFaults>>
           ELSE IF config.xcToken.kind = "literal" THEN
                /\ SendRequest(data, log.detail, config.xcToken.value)
                /\ UNCHANGED sendFaults
           ELSE IF config.xcToken.settle = "throws" THEN
                /\ SendCatch(config.xcToken.value)
                /\ sendFaults' = Append(sendFaults, "token throws")
                /\ UNCHANGED posted
           ELSE /\ sendPc' = "awaitToken"
                /\ sendPromise' = Pending
                /\ UNCHANGED <<posted, consoleLog, sendFaults>>

\* mutant: `return sendRaceLog()` in place of `return result`
CallerSettlesWithSendResult(outcome) ==
    callerOutcome' = IF outcome.state = "fulfilled" THEN Fulfilled(Bool(TRUE)) ELSE outcome

\* mutant: `await sendRaceLog()` before the return or the rethrow
CallerSettlesAfterSend(outcome) ==
    callerOutcome' = IF sendPc' = "done" THEN outcome ELSE Pending

\* `return result` / `throw error`: raceLogger's promise settles
CallerSettles(outcome) == callerOutcome' = outcome

\* const raceLog of an invocation of a tracer created with props
NewRaceLog(props, time) ==
    [topic |-> recordTopic(props), begin_at |-> time, duration |-> Null,
     detail |-> <<>>, stdout |-> <<>>, stderr |-> <<>>]

\* raceLogger(race) up to `await race(utils)`
RaceLoggerInvoke ==
    /\ tPc = "new"
    /\ raceLog' = NewRaceLog(config, now)
    /\ callerOutcome' = Pending
    /\ tPc' = "running"
    /\ UNCHANGED <<config, race, now, utilCalls, sendPc, sendCalls, sendData,
                   stderrOfRace, settledLog, sendPromise, posted, fetched, consoleLog, sendFaults>>
    /\ UNCHANGED <<gateVars, paramsVars, renderVars, restVars>>

UtilFrame ==
    /\ tPc # "new"
    /\ utilCalls < MaxUtilCalls
    /\ utilCalls' = utilCalls + 1
    /\ UNCHANGED <<config, race, now, tPc, callerOutcome, sendPc, sendCalls, sendData,
                   stderrOfRace, settledLog, sendPromise, posted, fetched, consoleLog, sendFaults>>
    /\ UNCHANGED <<gateVars, paramsVars, renderVars, restVars>>

\* the operation (or work it left running) calls utils.stdout
UtilStdout ==
    /\ UtilFrame
    /\ \E texts \in StdoutTexts : raceLog' = UtilsStdout(raceLog, texts)

\* the operation (or work it left running) calls utils.stderr
UtilStderr ==
    /\ UtilFrame
    /\ \E texts \in StderrTexts : raceLog' = UtilsStderr(raceLog, texts)

\* the operation (or work it left running) calls utils.assignDetail
UtilAssignDetail ==
    /\ UtilFrame
    /\ \E setObject \in DetailObjects : raceLog' = UtilsAssignDetail(raceLog, setObject)

\* `await race(utils)` is fulfilled: sendRaceLog(); return result
RaceReturns ==
    /\ tPc = "running"
    /\ tPc' = "completed"
    /\ stderrOfRace' = raceLog.stderr
    /\ settledLog' = raceLog
    /\ sendRaceLog(raceLog)
    /\ \E result \in RaceResults :
        /\ race' = Fulfilled(result)
        /\ CallerSettles(Fulfilled(result))
    /\ UNCHANGED <<config, now, raceLog, utilCalls, fetched>>
    /\ UNCHANGED <<gateVars, paramsVars, renderVars, restVars>>

\* `await race(utils)` throws: the catch block
RaceThrows ==
    /\ tPc = "running"
    /\ tPc' = "failed"
    /\ stderrOfRace' = raceLog.stderr
    /\ \E error \in RaceThrowables :
        /\ race' = Rejected(error)
        /\ IF Nullish(error)
           THEN \* error.message throws inside the catch block
                /\ UNCHANGED <<raceLog, sendPc, sendCalls, sendData, sendPromise,
                               posted, consoleLog, sendFaults, settledLog>>
                /\ CallerSettles(Rejected(TypeError("error is not an object")))
           ELSE LET withMessage == UtilsStderr(raceLog, <<MessageOf(error)>>)
                    withStack == IF Truthy(StackOf(error))
                                 THEN UtilsStderr(withMessage, <<StackOf(error)>>)
                                 ELSE withMessage
                IN  /\ raceLog' = withStack
                    /\ settledLog' = withStack
                    /\ sendRaceLog(withStack)
                    /\ CallerSettles(Rejected(error))
    /\ UNCHANGED <<config, now, utilCalls, fetched>>
    /\ UNCHANGED <<gateVars, paramsVars, renderVars, restVars>>

\* `await xcToken()` settles
TokenSettled ==
    /\ sendPc = "awaitToken"
    /\ IF config.xcToken.settle = "rejects"
       THEN /\ SendCatch(config.xcToken.value)
            /\ sendFaults' = Append(sendFaults, "token rejects")
            /\ UNCHANGED posted
       ELSE /\ SendRequest(sendData, raceLog.detail, config.xcToken.value)
            /\ UNCHANGED sendFaults
    /\ UNCHANGED <<config, race, now, tPc, raceLog, utilCalls, callerOutcome,
                   sendCalls, sendData, stderrOfRace, settledLog, fetched>>
    /\ UNCHANGED <<gateVars, paramsVars, renderVars, restVars>>

\* `await fetch(...)` settles
FetchSettled ==
    /\ sendPc = "awaitFetch"
    /\ \E outcome \in FetchOutcomes :
        IF outcome.kind = "rejects" THEN
            /\ SendCatch(TypeError("fetch failed"))
            /\ sendFaults' = Append(sendFaults, "network error")
            /\ UNCHANGED fetched
        ELSE
            /\ fetched' = outcome.status
            /\ sendFaults' = IF outcome.status \in 200..299 THEN sendFaults
                             ELSE Append(sendFaults, "non-2xx")
            /\ IF outcome.status # 200 /\ outcome.status # 201
               THEN /\ sendPc' = "awaitText"
                    /\ UNCHANGED <<sendPromise, consoleLog>>
               ELSE SendReturn
    /\ UNCHANGED <<config, race, now, tPc, raceLog, utilCalls, callerOutcome,
                   sendCalls, sendData, stderrOfRace, settledLog, posted>>
    /\ UNCHANGED <<gateVars, paramsVars, renderVars, restVars>>

\* `await response.text()` settles
TextSettled ==
    /\ sendPc = "awaitText"
    /\ \E text \in {"", "table not found"} :
        /\ SendCatch(StatusError("NocoDB logging failed with status " \o text \o " "
                                    \o NumToString(fetched), fetched))
        /\ UNCHANGED sendFaults
    /\ UNCHANGED <<config, race, now, tPc, raceLog, utilCalls, callerOutcome,
                   sendCalls, sendData, stderrOfRace, settledLog, posted, fetched>>
    /\ UNCHANGED <<gateVars, paramsVars, renderVars, restVars>>

\* response.text() fails
TextRejected ==
    /\ sendPc = "awaitText"
    /\ SendCatch(TypeError("body stream failed"))
    /\ sendFaults' = Append(sendFaults, "text rejects")
    /\ UNCHANGED <<config, race, now, tPc, raceLog, utilCalls, callerOutcome,
                   sendCalls, sendData, stderrOfRace, settledLog, posted, fetched>>
    /\ UNCHANGED <<gateVars, paramsVars, renderVars, restVars>>

\* time passes
Tick ==
    /\ now < MaxClock
    /\ now' = now + 1
    /\ UNCHANGED <<config, race, tPc, raceLog, utilCalls, callerOutcome, sendPc,
                   sendCalls, sendData, stderrOfRace, settledLog, sendPromise, posted, fetched,
                   consoleLog, sendFaults>>
    /\ UNCHANGED <<gateVars, paramsVars, renderVars, restVars>>

-----------------------------------------------------------------------------
(* Parameter extractor *)

\* an object is a function from its own property names to values
EmptyObject == [k \in {} |-> Undefined]

\* { ...a, ...b }
Spread(a, b) ==
    [k \in DOMAIN a \cup DOMAIN b |-> IF k \in DOMAIN b THEN b[k] ELSE a[k]]

\* object[field]: undefined for a name the object does not have
Get(object, field) == IF field \in DOMAIN object THEN object[field] ELSE Undefined

\* a File of a multipart form, by its name
File(name) == JsValue("File", FALSE, name, "", 0, "")

\* s.includes(search), for a non-empty search string
Includes(s, search) ==
    \E i \in 1..(Len(s) - Len(search) + 1) : SubSeq(s, i, i + Len(search) - 1) = search

\* c.req.header("content-type") || ""
ContentTypeOf(header) == IF header.present THEN header.value ELSE ""

\* one entry of parseTrace
Did(op, field) == [op |-> op, field |-> field]

\* c.req.query()
Queries ==
    {EmptyObject,
     [k \in {"name"} |-> Str("John")],
     [k \in {"name", "email"} |-> IF k = "name" THEN Str("John") ELSE Str("")],
     [k \in {"name", "email", "age"} |->
        CASE k = "name" -> Str("John")
          [] k = "email" -> Str("john@example.com")
          [] OTHER -> Str("30")]}

\* the content-type header of the request
ContentTypes ==
    {NoHeader, Header("text/plain"),
     Header("application/json"), Header("application/json; charset=utf-8"),
     Header("Application/JSON; charset=utf-8"),
     Header("application/x-www-form-urlencoded"),
     Header("Application/X-WWW-Form-Urlencoded; charset=utf-8"),
     Header("multipart/form-data; boundary=x"), Header("Multipart/Form-Data; boundary=x")}

\* a body read that settles: c.req.json() or c.req.formData()
Decoded(fields) == [ok |-> TRUE, fields |-> fields]
Undecodable == [ok |-> FALSE, fields |-> EmptyObject]

\* the request body, by what c.req.json() and c.req.formData() make of it
Bodies ==
    {[json |-> Undecodable, formData |-> Undecodable],
     [json |-> Decoded(EmptyObject), formData |-> Undecodable],
     [json |-> Decoded([k \in {"name", "age"} |->
                          IF k = "name" THEN Str("Bob") ELSE Num("25")]),
      formData |-> Undecodable],
     [json |-> Decoded([k \in {"email"} |-> Null]), formData |-> Undecodable],
     [json |-> Undecodable,
      formData |-> Decoded([k \in {"email"} |-> Str("alice@example.com")])],
     [json |-> Undecodable,
      formData |-> Decoded([k \in {"name", "age"} |->
                              IF k = "name" THEN Str("") ELSE File("test.txt")])]}

\* options.requires and options.selects: omitted, or a list of field names
Omitted == [given |-> FALSE, list |-> <<>>]
Given(list) == [given |-> TRUE, list |-> list]

RequiresOptions ==
    {Omitted, Given(<<>>), Given(<<"name">>), Given(<<"name", "email">>),
     Given(<<"email", "age">>), Given(<<"age", "email", "name">>)}

SelectsOptions ==
    {Omitted, Given(<<>>), Given(<<"name">>), Given(<<"name", "age">>),
     Given(<<"email", "phone">>)}

ParamsInputs ==
    /\ request \in [query : Queries, contentType : ContentTypes, body : Bodies]
    /\ options \in [requires : RequiresOptions, selects : SelectsOptions]
    /\ pPc = "start"
    /\ params = EmptyObject
    /\ parseTrace = <<>>
    /\ parseOutcome = [state |-> "pending", result |-> EmptyObject, error |-> Undefined]

\* return value
Returned(result) == [state |-> "fulfilled", result |-> result, error |-> Undefined]

\* throw error
Threw(error) == [state |-> "rejected", result |-> EmptyObject, error |-> error]

\* mutant: only an absent field is missing
IsMissingUndefinedOnly(value) == value = Undefined

\* value === undefined || value === null || value === ''
IsMissing(value) == value = Undefined \/ value = Null \/ value = Str("")

\* the loop over options.requires from its i-th field on: the fields it examines
\* and the error it throws, if any
RECURSIVE RequiresLoop(_, _, _)
RequiresLoop(object, requires, i) ==
    IF i > Len(requires)
    THEN [thrown |-> FALSE, error |-> Undefined, trace |-> <<>>]
    ELSE IF IsMissing(Get(object, requires[i]))
    THEN [thrown |-> TRUE,
          error |-> StatusError("Required field '" \o requires[i]
                                    \o "' is missing or empty", 400),
          trace |-> <<Did("requires", requires[i])>>]
    ELSE LET rest == RequiresLoop(object, requires, i + 1)
         IN  [rest EXCEPT !.trace = <<Did("requires", requires[i])>> \o rest.trace]

\* mutant: a listed name the object does not have is selected as undefined
SelectedWithAbsent(object, selects) ==
    [k \in {selects[i] : i \in 1..Len(selects)} |-> Get(object, k)]

\* the loop over options.selects: selectedParams
Selected(object, selects) ==
    [k \in {f \in {selects[i] : i \in 1..Len(selects)} : Get(object, f) # Undefined} |->
        object[k]]

\* mutant: the projection comes first and the required fields are looked up in it
SelectsThenRequires(object, opts) ==
    LET projects == opts.selects.given /\ Len(opts.selects.list) > 0
        projected == IF projects THEN Selected(object, opts.selects.list) ELSE object
        checked == IF opts.requires.given
                   THEN RequiresLoop(projected, opts.requires.list, 1)
                   ELSE [thrown |-> FALSE, error |-> Undefined, trace |-> <<>>]
        selecting == IF projects THEN <<Did("selects", "")>> ELSE <<>>
    IN  IF checked.thrown
        THEN [outcome |-> Threw(checked.error), trace |-> selecting \o checked.trace]
        ELSE [outcome |-> Returned(projected), trace |-> selecting \o checked.trace]

\* parseParams from the required-field loop to its return
RequiresThenSelects(object, opts) ==
    LET checked == IF opts.requires.given
                   THEN RequiresLoop(object, opts.requires.list, 1)
                   ELSE [thrown |-> FALSE, error |-> Undefined, trace |-> <<>>]
    IN  IF checked.thrown
        THEN [outcome |-> Threw(checked.error), trace |-> checked.trace]
        ELSE IF opts.selects.given /\ Len(opts.selects.list) > 0
        THEN [outcome |-> Returned(Selected(object, opts.selects.list)),
              trace |-> checked.trace \o <<Did("selects", "")>>]
        ELSE [outcome |-> Returned(object), trace |-> checked.trace]

\* parseParams from its entry to its first await, or to its end when the
\* content type asks for no body
ParseEnter ==
    /\ pPc = "start"
    /\ UNCHANGED <<request, options>>
    /\ UNCHANGED <<gateVars, tracerVars, renderVars, restVars>>
    /\ LET merged == Spread(EmptyObject, request.query)
           contentType == ContentTypeOf(request.contentType)
           read == <<Did("query", ""), Did("header", "content-type")>>
       IN  IF Includes(contentType, "application/json")
           THEN /\ params' = merged
                /\ parseTrace' = read \o <<Did("json", "")>>
                /\ pPc' = "awaitJson"
                /\ UNCHANGED parseOutcome
           ELSE IF \/ Includes(contentType, "application/x-www-form-urlencoded")
                   \/ Includes(contentType, "multipart/form-data")
           THEN /\ params' = merged
                /\ parseTrace' = read \o <<Did("formData", "")>>
                /\ pPc' = "awaitFormData"
                /\ UNCHANGED parseOutcome
           ELSE LET rest == RequiresThenSelects(merged, options)
                IN  /\ params' = merged
                    /\ parseTrace' = read \o rest.trace
                    /\ parseOutcome' = rest.outcome
                    /\ pPc' = "done"

\* parseParams after `await c.req.json()` settles
ParseJsonSettled ==
    /\ pPc = "awaitJson"
    /\ pPc' = "done"
    /\ UNCHANGED <<request, options>>
    /\ UNCHANGED <<gateVars, tracerVars, renderVars, restVars>>
    /\ IF request.body.json.ok
       THEN LET merged == Spread(params, request.body.json.fields)
                rest == RequiresThenSelects(merged, options)
            IN  /\ params' = merged
                /\ parseTrace' = parseTrace \o rest.trace
                /\ parseOutcome' = rest.outcome
       ELSE /\ parseOutcome' = Threw(StatusError("Invalid JSON format in request body", 400))
            /\ UNCHANGED <<params, parseTrace>>

\* parseParams after `await c.req.formData()` settles
ParseFormDataSettled ==
    /\ pPc = "awaitFormData"
    /\ pPc' = "done"
    /\ UNCHANGED <<request, options>>
    /\ UNCHANGED <<gateVars, tracerVars, renderVars, restVars>>
    /\ IF request.body.formData.ok
       THEN LET formObject == Spread(EmptyObject, request.body.formData.fields)
                merged == Spread(params, formObject)
                rest == RequiresThenSelects(merged, options)
            IN  /\ params' = merged
                /\ parseTrace' = parseTrace \o rest.trace
                /\ parseOutcome' = rest.outcome
       ELSE /\ parseOutcome' = Threw(StatusError("Invalid form data format", 400))
            /\ UNCHANGED <<params, parseTrace>>

-----------------------------------------------------------------------------
(* Error renderer without a context: responseJsonError(error, transform),     *)
(* responseTextError(error, transform), responseHtmlError(error, template)    *)

\* a plain object { message, status }
ObjectWithStatus(message, status) == JsValue("object", FALSE, "", message, status, "")

\* typeof error === 'object'
TypeofObject(v) == v.type \in {"null", "object", "Error", "StatusError"}

\* 'status' in error, for an object
StatusIn(v) == v.type = "StatusError" \/ (v.type = "object" /\ v.status # 0)

\* mutant: every error is rendered as 500
ResolveStatus500(error) == 500

\* (typeof error === 'object' && error && 'status' in error) ? error.status : 500
ResolveStatus(error) ==
    IF TypeofObject(error) /\ Truthy(error) /\ StatusIn(error) THEN error.status ELSE 500

\* (error as any)?.message
OptionalMessage(error) == IF Nullish(error) THEN Undefined ELSE MessageOf(error)

\* one property of an object literal
Property(key, value) == [key |-> key, value |-> value]

\* JSON.stringify of a string without characters to escape, a number, a boolean or null
JsonOf(v) ==
    CASE v.type = "string" -> "\"" \o v.str \o "\""
      [] v.type = "number" -> v.str
      [] v.type = "boolean" -> IF v.bool THEN "true" ELSE "false"
      [] OTHER -> "null"

\* JSON.stringify(object): the properties in order, without the undefined ones
JSONStringify(object) ==
    LET defined == SelectSeq(object, LAMBDA q : q.value # Undefined)
        members == [i \in 1..Len(defined) |->
                      "\"" \o defined[i].key \o "\":" \o JsonOf(defined[i].value)]
    IN  "{" \o Join(members, ",") \o "}"

\* new Response(body, { status, headers: { 'Content-Type': contentType } })
NewResponse(body, status, contentType) ==
    [status |-> status, body |-> body, contentType |-> contentType]

NoResponse == NewResponse("", 0, "")

\* the call returned a Response
RenderReturned(response) == [state |-> "returned", response |-> response, error |-> Undefined]

\* the call threw
RenderThrew(error) == [state |-> "threw", response |-> NoResponse, error |-> error]

\* the transform or template argument
NoHook == [kind |-> "none", does |-> "", text |-> ""]
Function(does) == [kind |-> "function", does |-> does, text |-> ""]
Template(text) == [kind |-> "string", does |-> "", text |-> text]

\* transform(json) of the caller: what it returns, or that it throws
JsonTransform(does, json) ==
    CASE does = "addDetail" ->
            [threw |-> FALSE, value |-> json \o <<Property("detail", Str("2026-11-05"))>>]
      [] does = "overrideStatus" ->
            [threw |-> FALSE,
             value |-> [i \in 1..Len(json) |->
                          IF json[i].key = "status"
                          THEN Property("status", Num("200")) ELSE json[i]]]
      [] does = "replace" ->
            [threw |-> FALSE, value |-> <<Property("ok", Bool(FALSE))>>]
      [] OTHER -> [threw |-> TRUE, value |-> <<>>]

\* transform(text) of the caller
TextTransform(does, text) ==
    CASE does = "prefix" -> [threw |-> FALSE, value |-> "[Error] " \o text]
      [] does = "constant" -> [threw |-> FALSE, value |-> "Something went wrong"]
      [] OTHER -> [threw |-> TRUE, value |-> ""]

\* what a hook throws
HookError == Error("Render failed")

\* {x} in JSX: nothing for undefined
JsxText(v) == IF v = Undefined THEN "" ELSE JsString(v)

\* Component({ error }) of the caller: the element's toString(), that the
\* element is null, or that the component throws
Component(does, error) ==
    CASE does = "ErrorPage" ->
            [threw |-> FALSE, element |-> TRUE,
             html |-> "<h1>Oops! Something went wrong</h1><p>"
                        \o JsxText(OptionalMessage(error)) \o "</p><small>Status: "
                        \o NumToString(IF ~Nullish(error) /\ StatusIn(error)
                                       THEN error.status ELSE 500)
                        \o "</small>"]
      [] does = "ErrorComponent" ->
            IF TypeofObject(error) /\ ~Nullish(error)
            THEN [threw |-> FALSE, element |-> TRUE,
                  html |-> "<div><h1>Error "
                             \o NumToString(IF StatusIn(error) THEN error.status ELSE 500)
                             \o "</h1><p>" \o JsString(MessageOf(error)) \o "</p></div>"]
            ELSE [threw |-> TRUE, element |-> FALSE, html |-> ""]
      [] does = "null" -> [threw |-> FALSE, element |-> FALSE, html |-> ""]
      [] OTHER -> [threw |-> TRUE, element |-> FALSE, html |-> ""]

\* `<h1>Error</h1><p>${(error as any)?.message}</p>`
DefaultHtml(error) == "<h1>Error</h1><p>" \o JsString(OptionalMessage(error)) \o "</p>"

\* the error values handed to a renderer
ErrorValues ==
    {StatusError("Not Found", 404), StatusError("Bad Request", 400),
     StatusError("Server Error", 500), Error("Something went wrong"), Error(""),
     Obj("Custom error"), ObjectWithStatus("Custom error", 418),
     Null, Undefined, Str("boom"), Num("42")}

Modes == {"json", "text", "html"}

\* the second argument, by mode
Hooks(m) ==
    CASE m = "json" -> {NoHook, Function("addDetail"), Function("overrideStatus"),
                        Function("replace"), Function("throws")}
      [] m = "text" -> {NoHook, Function("prefix"), Function("constant"),
                        Function("throws")}
      [] OTHER -> {NoHook, Function("ErrorPage"), Function("ErrorComponent"),
                   Function("null"), Function("BrokenComponent"),
                   Template("<html><body><h1>Custom Error</h1></body></html>"),
                   Template("")}

RenderInputs ==
    /\ thrown \in ErrorValues
    /\ mode \in Modes
    /\ hook \in Hooks(mode)
    /\ rPc = "start"
    /\ rendered = [state |-> "none", response |-> NoResponse, error |-> Undefined]
    /\ renderLog = <<>>

\* mutant: the response takes the status of the body the transform returned
ResponseJsonErrorStatusOfBody(error, transform) ==
    LET status == ResolveStatus(error)
        defaultJson == <<Property("status", Num(NumToString(status))),
                         Property("message", OptionalMessage(error))>>
        transformed == JsonTransform(transform.does, defaultJson)
        responseJson == IF transform.kind = "function" THEN transformed.value
                        ELSE defaultJson
        own == SelectSeq(responseJson, LAMBDA q : q.key = "status")
    IN  IF transform.kind = "function" /\ transformed.threw
        THEN RenderThrew(HookError)
        ELSE RenderReturned(NewResponse(JSONStringify(responseJson),
                                        IF own # <<>> /\ own[1].value = Num("200")
                                        THEN 200 ELSE status,
                                        "application/json"))

\* responseJsonError(error, transform)
ResponseJsonError(error, transform) ==
    LET status == ResolveStatus(error)
        defaultJson == <<Property("status", Num(NumToString(status))),
                         Property("message", OptionalMessage(error))>>
        transformed == JsonTransform(transform.does, defaultJson)
        responseJson == IF transform.kind = "function" THEN transformed.value
                        ELSE defaultJson
    IN  IF transform.kind = "function" /\ transformed.threw
        THEN RenderThrew(HookError)
        ELSE RenderReturned(NewResponse(JSONStringify(responseJson), status,
                                        "application/json"))

\* mutant: `'status' in error` without the guards, which throws for a value
\* that is not an object
ResponseTextErrorUnguarded(error, transform) ==
    LET status == IF StatusIn(error) THEN error.status ELSE 500
        defaultText == "Error: " \o JsString(OptionalMessage(error))
        transformed == TextTransform(transform.does, defaultText)
        responseText == IF transform.kind = "function" THEN transformed.value
                        ELSE defaultText
    IN  IF ~TypeofObject(error) \/ Nullish(error)
        THEN RenderThrew(TypeError("Cannot use 'in' operator to search for 'status'"))
        ELSE IF transform.kind = "function" /\ transformed.threw
        THEN RenderThrew(HookError)
        ELSE RenderReturned(NewResponse(responseText, status,
                                        "text/plain; charset=UTF-8"))

\* responseTextError(error, transform)
ResponseTextError(error, transform) ==
    LET status == ResolveStatus(error)
        defaultText == "Error: " \o JsString(OptionalMessage(error))
        transformed == TextTransform(transform.does, defaultText)
        responseText == IF transform.kind = "function" THEN transformed.value
                        ELSE defaultText
    IN  IF transform.kind = "function" /\ transformed.threw
        THEN RenderThrew(HookError)
        ELSE RenderReturned(NewResponse(responseText, status,
                                        "text/plain; charset=UTF-8"))

\* mutant: no catch around the component, its exception leaves the renderer
ResponseHtmlErrorPropagates(error, template) ==
    LET status == ResolveStatus(error)
        rendering == Component(template.does, error)
    IN  IF template.kind = "function" /\ rendering.threw
        THEN [outcome |-> RenderThrew(HookError), logs |-> <<>>]
        ELSE [outcome |-> RenderReturned(NewResponse(
                            IF template.kind = "function" /\ rendering.element
                            THEN rendering.html
                            ELSE IF template.kind = "string" /\ template.text # ""
                            THEN template.text
                            ELSE DefaultHtml(error),
                            status, "text/html; charset=UTF-8")),
              logs |-> <<>>]

\* responseHtmlError(error, template): the outcome and the console.error calls
ResponseHtmlError(error, template) ==
    LET status == ResolveStatus(error)
        html(text) == RenderReturned(NewResponse(text, status, "text/html; charset=UTF-8"))
    IN  IF template.kind = "function"
        THEN LET rendering == Component(template.does, error)
             IN  IF rendering.threw
                 THEN [outcome |-> html(DefaultHtml(error)),
                       logs |-> <<"[ERROR] Failed to render template component:">>]
                 ELSE [outcome |-> html(IF rendering.element THEN rendering.html
                                        ELSE DefaultHtml(error)),
                       logs |-> <<>>]
        ELSE IF template.kind = "string" /\ template.text # ""
        THEN [outcome |-> html(template.text), logs |-> <<>>]
        ELSE [outcome |-> html(DefaultHtml(error)), logs |-> <<>>]

\* a call of responseJsonError
RenderJson ==
    /\ rPc = "start" /\ mode = "json"
    /\ rendered' = ResponseJsonError(thrown, hook)
    /\ rPc' = "done"
    /\ UNCHANGED <<thrown, mode, hook, renderLog>>
    /\ UNCHANGED <<gateVars, tracerVars, paramsVars, restVars>>

\* a call of responseTextError
RenderText ==
    /\ rPc = "start" /\ mode = "text"
    /\ rendered' = ResponseTextError(thrown, hook)
    /\ rPc' = "done"
    /\ UNCHANGED <<thrown, mode, hook, renderLog>>
    /\ UNCHANGED <<gateVars, tracerVars, paramsVars, restVars>>

\* a call of responseHtmlError
RenderHtml ==
    /\ rPc = "start" /\ mode = "html"
    /\ LET call == ResponseHtmlError(thrown, hook)
       IN  /\ rendered' = call.outcome
           /\ renderLog' = renderLog \o call.logs
    /\ rPc' = "done"
    /\ UNCHANGED <<thrown, mode, hook>>
    /\ UNCHANGED <<gateVars, tracerVars, paramsVars, restVars>>

-----------------------------------------------------------------------------
(* Error renderers with a Context: responseJsonError(c, error, verbose),      *)
(* responseTextError(c, error, verbose),                                     *)
(* responseTemplateError(c, error, template, verbose)                        *)

\* the verbose argument: true, false, or left out
VerboseFlags == {"true", "false", "omitted"}

\* mutant: the parameter defaults to false
VerboseDefaultFalse(flag) == flag = "true"

\* verbose: boolean = true
Verbose(flag) == flag # "false"

\* c.text(`Error: ${error.message}`, status)
responseTextError(error, verbose) ==
    LET status == IF HasStatus(error) THEN error.status ELSE 500
    IN  [response |-> [status |-> status, body |-> "Error: " \o error.message],
         logged |-> IF verbose THEN <<"[ERROR] responseTextError:">> ELSE <<>>]

\* c.html(..., status)
responseTemplateError(error, template, verbose) ==
    LET status == IF HasStatus(error) THEN error.status ELSE 500
        fallback == "<h1>Error</h1><p>" \o error.message \o "</p>"
        said == IF verbose THEN <<"[ERROR] responseTemplateError:">> ELSE <<>>
    IN  IF template.kind = "function"
        THEN LET rendering == Component(template.does, error)
             IN  IF rendering.threw
                 THEN [response |-> [status |-> status, body |-> fallback],
                       logged |-> said \o <<"[ERROR] Failed to render template component:">>]
                 ELSE [response |-> [status |-> status,
                                     body |-> IF rendering.element THEN rendering.html
                                              ELSE fallback],
                       logged |-> said]
        ELSE IF template.kind = "string" /\ template.text # ""
        THEN [response |-> [status |-> status, body |-> template.text], logged |-> said]
        ELSE [response |-> [status |-> status, body |-> fallback], logged |-> said]

\* error: Error | StatusError
ContextErrors ==
    {Error("Something went wrong"), Error(""), StatusError("Test error", 400),
     StatusError("Page Not Found", 404), StatusError("Server Error", 500)}

ContextModes == {"json", "text", "template"}

\* the template argument, by mode
ContextTemplates(m) ==
    IF m = "template"
    THEN {NoHook, Function("ErrorComponent"), Function("BrokenComponent"),
          Function("null"), Template("<html><body><h1>Custom Error</h1></body></html>")}
    ELSE {NoHook}

ContextInputs ==
    /\ ctxError \in ContextErrors
    /\ ctxMode \in ContextModes
    /\ ctxTemplate \in ContextTemplates(ctxMode)
    /\ ctxCalls = <<>>

\* the flag was not used in a call yet
FreshFlag(flag) == \A i \in 1..Len(ctxCalls) : ctxCalls[i].verbose # flag

\* one call, recorded
Called(flag, call) == [verbose |-> flag, response |-> call.response, logs |-> call.logged]

\* a call of responseJsonError(c, error, verbose)
ContextRenderJson ==
    /\ ctxMode = "json"
    /\ \E flag \in VerboseFlags :
        /\ FreshFlag(flag)
        /\ ctxCalls' = Append(ctxCalls,
                              Called(flag, responseJsonError(ctxError, Verbose(flag))))
    /\ UNCHANGED <<ctxError, ctxMode, ctxTemplate>>
    /\ UNCHANGED <<gateVars, tracerVars, paramsVars, renderVars, outsideContext>>

\* a call of responseTextError(c, error, verbose)
ContextRenderText ==
    /\ ctxMode = "text"
    /\ \E flag \in VerboseFlags :
        /\ FreshFlag(flag)
        /\ ctxCalls' = Append(ctxCalls,
                              Called(flag, responseTextError(ctxError, Verbose(flag))))
    /\ UNCHANGED <<ctxError, ctxMode, ctxTemplate>>
    /\ UNCHANGED <<gateVars, tracerVars, paramsVars, renderVars, outsideContext>>

\* a call of responseTemplateError(c, error, template, verbose)
ContextRenderTemplate ==
    /\ ctxMode = "template"
    /\ \E flag \in VerboseFlags :
        /\ FreshFlag(flag)
        /\ ctxCalls' = Append(ctxCalls,
                              Called(flag, responseTemplateError(ctxError, ctxTemplate,
                                                                 Verbose(flag))))
    /\ UNCHANGED <<ctxError, ctxMode, ctxTemplate>>
    /\ UNCHANGED <<gateVars, tracerVars, paramsVars, renderVars, outsideContext>>

-----------------------------------------------------------------------------
(* raceLogger.clone *)

\* a field of the overrides argument
Absent == [given |-> FALSE, value |-> ""]
AbsentSource == [given |-> FALSE, value |-> [kind |-> "literal", settle |-> "value",
                                              value |-> Str("")]]
Override(value) == [given |-> TRUE, value |-> value]

\* overrides.field || field, for a string field
OrString(override, own) ==
    IF override.given /\ override.value # "" THEN override.value ELSE own

\* overrides.xcToken || xcToken: a function is truthy, a string unless empty
OrSource(override, own) ==
    IF override.given /\ (override.value.kind = "function" \/ Truthy(override.value.value))
    THEN override.value ELSE own

\* the argument clone passes to createRaceLoggerOnNocoDB
Clone(props, over) ==
    [xcToken |-> OrSource(over.xcToken, props.xcToken),
     baseUrl |-> OrString(over.baseUrl, props.baseUrl),
     tableId |-> OrString(over.tableId, props.tableId),
     topic |-> OrString(over.topic, props.topic),
     timezone |-> OrString(over.timezone, props.timezone)]

\* the request of an invocation, made at time 0, of a tracer created with props
\* whose operation writes nothing and whose token source yields its value
Transmitted(props) ==
    LET log == NewRaceLog(props, 0)
    IN  FetchRequest(props, SendDataOf(props, log, 0), log.detail, props.xcToken.value)

ParentPropsSet ==
    {[xcToken |-> [kind |-> "literal", settle |-> "value", value |-> Str("tok")],
      baseUrl |-> "https://nocodb.example.com", tableId |-> "table_123",
      topic |-> "user-api", timezone |-> "Asia/Seoul"],
     [xcToken |-> [kind |-> "function", settle |-> "value", value |-> Str("vault-tok")],
      baseUrl |-> "https://nocodb.example.com", tableId |-> "table_123",
      topic |-> "", timezone |-> "America/New_York"]}

OverridesSet ==
    [xcToken : {AbsentSource,
                Override([kind |-> "literal", settle |-> "value", value |-> Str("tok-b")]),
                Override([kind |-> "function", settle |-> "value",
                          value |-> Str("vault-b")])},
     baseUrl : {Absent, Override("https://other.example.com")},
     tableId : {Absent, Override("table_456")},
     topic : {Absent, Override("admin-api"), Override("")},
     timezone : {Absent, Override("UTC")}]

CloneInputs ==
    /\ parentProps \in ParentPropsSet
    /\ overrides \in OverridesSet
    /\ cloneProps = parentProps
    /\ cloneMade = FALSE
    /\ cloneRequests = <<>>

\* none of the requests so far is by this tracer
NoRequestBy(who) == \A i \in 1..Len(cloneRequests) : cloneRequests[i].by # who

\* raceLogger.clone(overrides)
CloneMake ==
    /\ ~cloneMade
    /\ cloneMade' = TRUE
    /\ cloneProps' = Clone(parentProps, overrides)
    /\ UNCHANGED <<parentProps, overrides, cloneRequests>>
    /\ UNCHANGED <<gateVars, tracerVars, paramsVars, renderVars, outsideClone>>

\* an invocation of the parent tracer transmits its record
ParentTransmits ==
    /\ NoRequestBy("parent")
    /\ cloneRequests' = Append(cloneRequests,
                               [by |-> "parent", afterClone |-> cloneMade,
                                request |-> Transmitted(parentProps)])
    /\ UNCHANGED <<parentProps, overrides, cloneProps, cloneMade>>
    /\ UNCHANGED <<gateVars, tracerVars, paramsVars, renderVars, outsideClone>>

\* an invocation of the clone transmits its record
CloneTransmits ==
    /\ cloneMade
    /\ NoRequestBy("clone")
    /\ cloneRequests' = Append(cloneRequests,
                               [by |-> "clone", afterClone |-> TRUE,
                                request |-> Transmitted(cloneProps)])
    /\ UNCHANGED <<parentProps, overrides, cloneProps, cloneMade>>
    /\ UNCHANGED <<gateVars, tracerVars, paramsVars, renderVars, outsideClone>>

-----------------------------------------------------------------------------
(* StatusError *)

NumberArgument(n) == [type |-> "number", number |-> n, text |-> ""]
StringArgument(text) == [type |-> "string", number |-> 0, text |-> text]

\* mutant: every code gets the generic message
DefaultMessageGeneric(status) == "HTTP " \o NumToString(status) \o " Error"

\* the switch over status
DefaultMessage(status) ==
    CASE status = 400 -> "Bad Request"
      [] status = 401 -> "Unauthorized"
      [] status = 403 -> "Forbidden"
      [] status = 404 -> "Not Found"
      [] status = 409 -> "Conflict"
      [] status = 422 -> "Unprocessable Entity"
      [] status = 429 -> "Too Many Requests"
      [] status = 500 -> "Internal Server Error"
      [] status = 502 -> "Bad Gateway"
      [] status = 503 -> "Service Unavailable"
      [] OTHER -> "HTTP " \o NumToString(status) \o " Error"

\* new StatusError(message, status = 500)
NewStatusError(message, status) ==
    IF message.type = "number"
    THEN StatusError(DefaultMessage(message.number), message.number)
    ELSE StatusError(message.text, IF status.given THEN status.value ELSE DefaultStatus)

StatusCodes == 100..599
Messages == {"", "Custom error", "Not Found"}
StatusArguments == {[given |-> FALSE, value |-> 0], [given |-> TRUE, value |-> 404],
                    [given |-> TRUE, value |-> 418]}

StatusInputs ==
    /\ seMessage \in {NumberArgument(n) : n \in StatusCodes}
                        \cup {StringArgument(m) : m \in Messages}
    /\ seStatus \in StatusArguments
    /\ seResult = Undefined

\* new StatusError(...) with the arguments
Construct ==
    /\ seResult = Undefined
    /\ seResult' = NewStatusError(seMessage, seStatus)
    /\ UNCHANGED <<seMessage, seStatus>>
    /\ UNCHANGED <<gateVars, tracerVars, paramsVars, renderVars, outsideStatus>>

-----------------------------------------------------------------------------
(* Two invocations in flight *)

\* calls made through utils by the two invocations together
MaxPairCalls == 2
\* Date.now() advances at most this far while the two are in flight
MaxPairClock == 1

Invocations == {1, 2}

\* mutant: raceLog is one object of the tracer, shared by its invocations
RaceLogOfTracer(i) == 1

\* raceLog is a const of the invocation: the utils of invocation i write to it
RaceLogOf(i) == i

PairTracer ==
    [xcToken |-> [kind |-> "function", settle |-> "value", value |-> Str("tok")],
     baseUrl |-> "https://nocodb.example.com", tableId |-> "table_123",
     topic |-> "user-api", timezone |-> "Asia/Seoul"]

NothingWritten == [begin_at |-> 0, stdout |-> <<>>, stderr |-> <<>>, detail |-> <<>>]

PairInputs ==
    /\ \E over \in {[xcToken |-> AbsentSource, baseUrl |-> Absent, tableId |-> Absent,
                     topic |-> t, timezone |-> Absent] : t \in {Absent, Override("admin-api")}} :
          pairProps = <<PairTracer, Clone(PairTracer, over)>>
    /\ pairNow = 0
    /\ pairPc = <<"new", "new">>
    /\ pairLogs = <<NewRaceLog(PairTracer, 0), NewRaceLog(PairTracer, 0)>>
    /\ pairSend = <<SendDataOf(PairTracer, NewRaceLog(PairTracer, 0), 0),
                    SendDataOf(PairTracer, NewRaceLog(PairTracer, 0), 0)>>
    /\ pairWritten = <<NothingWritten, NothingWritten>>
    /\ pairPosted = <<>>

PairCalls ==
    LET n(i) == Len(pairWritten[i].stdout) + Len(pairWritten[i].stderr)
                    + Cardinality(DOMAIN pairWritten[i].detail)
    IN  n(1) + n(2)

\* raceLogger(race) up to `await race(utils)`
PairInvoke(i) ==
    /\ pairPc[i] = "new"
    /\ pairPc' = [pairPc EXCEPT ![i] = "running"]
    /\ pairLogs' = [pairLogs EXCEPT ![i] = NewRaceLog(pairProps[i], pairNow)]
    /\ pairWritten' = [pairWritten EXCEPT ![i].begin_at = pairNow]
    /\ UNCHANGED <<pairProps, pairNow, pairSend, pairPosted>>
    /\ UNCHANGED <<gateVars, tracerVars, paramsVars, renderVars, outsidePair>>

\* the operation of invocation i calls utils.stdout
PairStdout(i) ==
    /\ pairPc[i] = "running"
    /\ PairCalls < MaxPairCalls
    /\ \E texts \in StdoutTexts :
        /\ pairLogs' = [pairLogs EXCEPT
                           ![RaceLogOf(i)] = UtilsStdout(pairLogs[RaceLogOf(i)], texts)]
        /\ pairWritten' = [pairWritten EXCEPT ![i].stdout = Append(@, texts)]
    /\ UNCHANGED <<pairProps, pairNow, pairPc, pairSend, pairPosted>>
    /\ UNCHANGED <<gateVars, tracerVars, paramsVars, renderVars, outsidePair>>

\* the operation of invocation i calls utils.stderr
PairStderr(i) ==
    /\ pairPc[i] = "running"
    /\ PairCalls < MaxPairCalls
    /\ \E texts \in StderrTexts :
        /\ pairLogs' = [pairLogs EXCEPT
                           ![RaceLogOf(i)] = UtilsStderr(pairLogs[RaceLogOf(i)], texts)]
        /\ pairWritten' = [pairWritten EXCEPT ![i].stderr = Append(@, texts)]
    /\ UNCHANGED <<pairProps, pairNow, pairPc, pairSend, pairPosted>>
    /\ UNCHANGED <<gateVars, tracerVars, paramsVars, renderVars, outsidePair>>

\* the operation of invocation i calls utils.assignDetail, once
PairAssignDetail(i) ==
    /\ pairPc[i] = "running"
    /\ PairCalls < MaxPairCalls
    /\ pairWritten[i].detail = <<>>
    /\ \E setObject \in DetailObjects :
        /\ pairLogs' = [pairLogs EXCEPT
               ![RaceLogOf(i)] = UtilsAssignDetail(pairLogs[RaceLogOf(i)], setObject)]
        /\ pairWritten' = [pairWritten EXCEPT ![i].detail = setObject]
    /\ UNCHANGED <<pairProps, pairNow, pairPc, pairSend, pairPosted>>
    /\ UNCHANGED <<gateVars, tracerVars, paramsVars, renderVars, outsidePair>>

\* `await race(utils)` of invocation i is fulfilled: sendRaceLog() up to
\* `await xcToken()`
PairReturns(i) ==
    /\ pairPc[i] = "running"
    /\ pairPc' = [pairPc EXCEPT ![i] = "awaitToken"]
    /\ pairSend' = [pairSend EXCEPT
                       ![i] = SendDataOf(pairProps[i], pairLogs[RaceLogOf(i)], pairNow)]
    /\ UNCHANGED <<pairProps, pairNow, pairLogs, pairWritten, pairPosted>>
    /\ UNCHANGED <<gateVars, tracerVars, paramsVars, renderVars, outsidePair>>

\* `await xcToken()` of invocation i settles: fetch is called
PairTokenSettled(i) ==
    /\ pairPc[i] = "awaitToken"
    /\ pairPc' = [pairPc EXCEPT ![i] = "awaitFetch"]
    /\ pairPosted' = Append(pairPosted,
          [by |-> i,
           request |-> FetchRequest(pairProps[i], pairSend[i], pairLogs[RaceLogOf(i)].detail,
                                    pairProps[i].xcToken.value)])
    /\ UNCHANGED <<pairProps, pairNow, pairLogs, pairSend, pairWritten>>
    /\ UNCHANGED <<gateVars, tracerVars, paramsVars, renderVars, outsidePair>>

\* `await fetch(...)` of invocation i settles
PairFetchSettled(i) ==
    /\ pairPc[i] = "awaitFetch"
    /\ pairPc' = [pairPc EXCEPT ![i] = "done"]
    /\ UNCHANGED <<pairProps, pairNow, pairLogs, pairSend, pairWritten, pairPosted>>
    /\ UNCHANGED <<gateVars, tracerVars, paramsVars, renderVars, outsidePair>>

\* time passes
PairTick ==
    /\ pairNow < MaxPairClock
    /\ pairNow' = pairNow + 1
    /\ UNCHANGED <<pairProps, pairPc, pairLogs, pairSend, pairWritten, pairPosted>>
    /\ UNCHANGED <<gateVars, tracerVars, paramsVars, renderVars, outsidePair>>

-----------------------------------------------------------------------------
(* Specifications *)

\* the tracer, not invoked
IdleTracer ==
    /\ config = [xcToken |-> [kind |-> "literal", settle |-> "value", value |-> Str("tok")],
                 baseUrl |-> "https://nocodb.example.com",
                 tableId |-> "table_123", topic |-> "user-api", timezone |-> "Asia/Seoul"]
    /\ race = Pending
    /\ now = 0
    /\ tPc = "new"
    /\ raceLog = <<>>
    /\ utilCalls = 0
    /\ callerOutcome = NotCalled
    /\ sendPc = "idle"
    /\ sendCalls = 0
    /\ sendData = <<>>
    /\ stderrOfRace = <<>>
    /\ settledLog = <<>>
    /\ sendPromise = NotCalled
    /\ posted = <<>>
    /\ fetched = 0
    /\ consoleLog = <<>>
    /\ sendFaults = <<>>

\* parseParams, not called
IdleParams ==
    /\ request = [query |-> EmptyObject, contentType |-> NoHeader,
                  body |-> [json |-> Undecodable, formData |-> Undecodable]]
    /\ options = [requires |-> Omitted, selects |-> Omitted]
    /\ pPc = "start"
    /\ params = EmptyObject
    /\ parseTrace = <<>>
    /\ parseOutcome = [state |-> "pending", result |-> EmptyObject, error |-> Undefined]

\* the renderer, not called
IdleRender ==
    /\ thrown = Undefined
    /\ mode = "json"
    /\ hook = NoHook
    /\ rPc = "start"
    /\ rendered = [state |-> "none", response |-> NoResponse, error |-> Undefined]
    /\ renderLog = <<>>

\* the renderers with a Context, not called
IdleContext ==
    /\ ctxError = Error("")
    /\ ctxMode = "json"
    /\ ctxTemplate = NoHook
    /\ ctxCalls = <<>>

\* no clone made
IdleClone ==
    /\ parentProps = <<>>
    /\ overrides = <<>>
    /\ cloneProps = <<>>
    /\ cloneMade = FALSE
    /\ cloneRequests = <<>>

\* no StatusError under construction
IdleStatus ==
    /\ seMessage = StringArgument("")
    /\ seStatus = [given |-> FALSE, value |-> 0]
    /\ seResult = Undefined

\* no invocations in flight
IdlePair ==
    /\ pairProps = <<>>
    /\ pairNow = 0
    /\ pairPc = <<>>
    /\ pairLogs = <<>>
    /\ pairSend = <<>>
    /\ pairWritten = <<>>
    /\ pairPosted = <<>>

IdleRest == IdleContext /\ IdleClone /\ IdleStatus /\ IdlePair

NextGate ==
    \/ GateEnter
    \/ GateValidated
    \/ GateNextSettled

\* one handler invocation, for every header, validator and continuation
InitGate == GateInputs /\ IdleTracer /\ IdleParams /\ IdleRender /\ IdleRest

SpecGate == InitGate /\ [][NextGate]_vars

\* the gate, not invoked
IdleGate ==
    /\ authorization = NoHeader
    /\ validator = [kind |-> "resolves", value |-> Bool(TRUE)]
    /\ nextBehaviour = "resolves"
    /\ gPc = "start"
    /\ token = Null
    /\ validateCalls = <<>>
    /\ nextCalls = 0
    /\ responses = <<>>
    /\ gateOutcome = Pending
    /\ consoleError = <<>>

NextTracer ==
    \/ RaceLoggerInvoke
    \/ UtilStdout
    \/ UtilStderr
    \/ UtilAssignDetail
    \/ RaceReturns
    \/ RaceThrows
    \/ TokenSettled
    \/ FetchSettled
    \/ TextSettled
    \/ TextRejected
    \/ Tick

\* one tracer invocation, for every configuration
InitTracer == TracerInputs /\ IdleGate /\ IdleParams /\ IdleRender /\ IdleRest

SpecTracer == InitTracer /\ [][NextTracer]_vars

NextParams ==
    \/ ParseEnter
    \/ ParseJsonSettled
    \/ ParseFormDataSettled

\* one call of parseParams, for every request and every pair of options
InitParams == ParamsInputs /\ IdleGate /\ IdleTracer /\ IdleRender /\ IdleRest

SpecParams == InitParams /\ [][NextParams]_vars

NextRender ==
    \/ RenderJson
    \/ RenderText
    \/ RenderHtml

\* one call of a renderer, for every error value, mode and second argument
InitRender == RenderInputs /\ IdleGate /\ IdleTracer /\ IdleParams /\ IdleRest

SpecRender == InitRender /\ [][NextRender]_vars

NextContext ==
    \/ ContextRenderJson
    \/ ContextRenderText
    \/ ContextRenderTemplate

\* calls of one renderer with one error, each with another verbose argument
InitContext ==
    /\ ContextInputs
    /\ IdleGate /\ IdleTracer /\ IdleParams /\ IdleRender
    /\ IdleClone /\ IdleStatus /\ IdlePair

SpecContext == InitContext /\ [][NextContext]_vars

NextClone ==
    \/ CloneMake
    \/ ParentTransmits
    \/ CloneTransmits

\* one tracer, one clone of it, and a record transmitted by each
InitClone ==
    /\ CloneInputs
    /\ IdleGate /\ IdleTracer /\ IdleParams /\ IdleRender
    /\ IdleContext /\ IdleStatus /\ IdlePair

SpecClone == InitClone /\ [][NextClone]_vars

NextStatus == Construct

\* one construction of a StatusError
InitStatus ==
    /\ StatusInputs
    /\ IdleGate /\ IdleTracer /\ IdleParams /\ IdleRender
    /\ IdleContext /\ IdleClone /\ IdlePair

SpecStatus == InitStatus /\ [][NextStatus]_vars

NextPair ==
    \/ \E i \in Invocations : PairInvoke(i)
    \/ \E i \in Invocations : PairStdout(i)
    \/ \E i \in Invocations : PairStderr(i)
    \/ \E i \in Invocations : PairAssignDetail(i)
    \/ \E i \in Invocations : PairReturns(i)
    \/ \E i \in Invocations : PairTokenSettled(i)
    \/ \E i \in Invocations : PairFetchSettled(i)
    \/ PairTick

\* two invocations, of one tracer or of a tracer and its clone
InitPair ==
    /\ PairInputs
    /\ IdleGate /\ IdleTracer /\ IdleParams /\ IdleRender
    /\ IdleContext /\ IdleClone /\ IdleStatus

SpecPair == InitPair /\ [][NextPair]_vars

-----------------------------------------------------------------------------
(* Authentication gate: properties *)

\* the Authorization header is a Bearer header
BearerHeader ==
    /\ authorization.present
    /\ Len(authorization.value) >= 7
    /\ SubSeq(authorization.value, 1, 7) = "Bearer "

\* the Authorization header is absent or empty
MissingHeader == ~authorization.present \/ authorization.value = ""

ValidatorApproves == validator = [kind |-> "resolves", value |-> Bool(TRUE)]

ErrorResponse(status, message) == [status |-> status, body |-> [error |-> message]]

C7_MissingHeader403 ==
    MissingHeader =>
        /\ validateCalls = <<>>
        /\ nextCalls = 0
        /\ gPc = "done" =>
            /\ responses = <<ErrorResponse(403, "Authorization required")>>
            /\ gateOutcome = Fulfilled(ErrorResponse(403, "Authorization required"))

C7_Witness ==
    /\ authorization = Header("")
    /\ gPc = "done"
    /\ responses = <<ErrorResponse(403, "Authorization required")>>

\* C8: with a header that is present but does not start with "Bearer ", the gate
\* renders 401 "Authorization format invalid" and calls neither the validator
\* nor the continuation.
C8_NonBearer401 ==
    (~MissingHeader /\ ~BearerHeader) =>
        /\ validateCalls = <<>>
        /\ nextCalls = 0
        /\ gPc = "done" =>
            responses = <<ErrorResponse(401, "Authorization format invalid")>>

\* C9: with a Bearer header and a validator that does anything but resolve to
\* true, the gate's outcome is 500 "Internal Server Error", the same for every
\* failure detail, and the continuation is not called.
C9_ValidatorFailure500 ==
    (BearerHeader /\ ~ValidatorApproves) =>
        /\ nextCalls = 0
        /\ gPc = "done" =>
            /\ responses = <<ErrorResponse(500, "Internal Server Error")>>
            /\ gateOutcome = Fulfilled(ErrorResponse(500, "Internal Server Error"))

C9_Witness ==
    /\ authorization = Header("Bearer abc")
    /\ validator = [kind |-> "resolves", value |-> StatusError("Token expired", 401)]
    /\ gPc = "done"
    /\ responses = <<ErrorResponse(500, "Internal Server Error")>>

\* the gate ended without calling the continuation
GateFailed == gPc = "done" /\ nextCalls = 0

\* C10 as stated: every failure of steps 1-4 ends in a 500 response.
C10_UniformlyInternalServerError ==
    GateFailed => /\ Len(responses) = 1
                  /\ responses[1].status = 500

\* C10, amended: every failure of steps 1-4 is caught by the outer catch and
\* rendered as one response, which fulfils the handler's promise, with the
\* failure's own status: 403 for a missing header, 401 for a non-Bearer header,
\* 500 for a validator failure.
C10_FailureRenderedWithOwnStatus ==
    GateFailed =>
        /\ Len(responses) = 1
        /\ gateOutcome = Fulfilled(responses[1])
        /\ responses[1].status =
              IF MissingHeader THEN 403 ELSE IF ~BearerHeader THEN 401 ELSE 500

C10_Witness ==
    /\ GateFailed
    /\ authorization = NoHeader
    /\ Len(responses) = 1
    /\ responses[1].status = 403

\* C11: with a header that starts with "Bearer ", the validator is invoked
\* exactly once, and its argument is what follows the 7-character prefix: the
\* prefix and the argument together are the header (the argument is the empty
\* string for the header "Bearer ").
C11_ValidatorCalledOnceWithToken ==
    (BearerHeader /\ gPc # "start") =>
        /\ Len(validateCalls) = 1
        /\ "Bearer " \o validateCalls[1] = authorization.value
        /\ token = Str(validateCalls[1])

C11_Witness ==
    /\ authorization = Header("Bearer ")
    /\ gPc = "done"
    /\ validateCalls = <<"">>

-----------------------------------------------------------------------------
(* Execution tracer: properties *)

Contains(seq, x) == \E i \in DOMAIN seq : seq[i] = x

Settled(promise) == promise.state \in {"fulfilled", "rejected"}

SendInFlight == sendPc \in {"awaitToken", "awaitFetch", "awaitText"}

\* C1: when the operation completes normally with a value, raceLogger's promise
\* is fulfilled with exactly that value, whatever becomes of the transmission.
C1_ResultDelivered ==
    race.state = "fulfilled" => callerOutcome = Fulfilled(race.value)

C1_Witness ==
    /\ race = Fulfilled(Num("42"))
    /\ callerOutcome = Fulfilled(Num("42"))
    /\ sendPc = "done"
    /\ Contains(sendFaults, "network error")

\* the lines the catch block is to append for a thrown value that has a message
ErrorLines(e) ==
    <<e.message>> \o (IF e.type \in {"Error", "StatusError"} THEN <<e.stack>> ELSE <<>>)

\* C2: when the operation throws e, raceLogger's promise is rejected with that
\* same e, and the stderr of the record is the lines the operation appended
\* followed by e's message and, when e has one, e's stack.
C2_ErrorRethrownAndRecorded ==
    race.state = "rejected" =>
        /\ callerOutcome = Rejected(race.value)
        /\ race.value.type \in {"Error", "StatusError", "object"} =>
              /\ sendCalls = 1
              /\ sendData.stderr = Join(stderrOfRace \o ErrorLines(race.value), "\n")

\* C3: once the operation has completed or thrown, sendRaceLog has been called
\* exactly once; it is never called twice.
C3_TransmitExactlyOnce ==
    /\ sendCalls <= 1
    /\ race.state # "pending" => sendCalls = 1

\* C4: raceLogger's promise is settled as soon as the operation has completed or
\* thrown, and so while the token source, the POST or the response body is
\* still awaited by sendRaceLog.
C4_CallerNotDelayed ==
    /\ race.state # "pending" => Settled(callerOutcome)
    /\ SendInFlight => callerOutcome = race

C4_Witness ==
    /\ sendPc = "awaitToken"
    /\ sendPromise = Pending
    /\ callerOutcome = Fulfilled(Num("42"))

\* C5: sendRaceLog's promise is never rejected; when a failure occurred inside
\* it, it ends having logged the failure and fulfilled with true; and the
\* caller's outcome stays the operation's.
C5_TransmitFailuresSwallowed ==
    /\ sendPromise.state # "rejected"
    /\ sendCalls >= 1 => callerOutcome = race
    /\ (sendPc = "done" /\ sendCalls >= 1) =>
          /\ sendPromise = Fulfilled(Bool(TRUE))
          /\ sendFaults # <<>> => Len(consoleLog) = 1

C5_Witness ==
    /\ sendPc = "done"
    /\ Contains(sendFaults, "token rejects")
    /\ Len(consoleLog) = 1
    /\ sendPromise = Fulfilled(Bool(TRUE))
    /\ callerOutcome = Rejected(Error("boom"))

-----------------------------------------------------------------------------
(* Parameter extractor: properties *)

UpperCase == "ABCDEFGHIJKLMNOPQRSTUVWXYZ"
LowerCase == "abcdefghijklmnopqrstuvwxyz"

\* the string with its ASCII capitals replaced by small letters
RECURSIVE ToLowerCase(_)
ToLowerCase(s) ==
    IF s = "" THEN ""
    ELSE LET c == SubSeq(s, 1, 1)
             at == {i \in 1..26 : SubSeq(UpperCase, i, i) = c}
             lower == IF at = {} THEN c
                      ELSE LET i == CHOOSE i \in at : TRUE IN SubSeq(LowerCase, i, i)
         IN  lower \o ToLowerCase(SubSeq(s, 2, Len(s)))

\* the media type the request declares, read without regard to case
MediaType ==
    IF request.contentType.present THEN ToLowerCase(request.contentType.value) ELSE ""

JsonContentType == Includes(MediaType, "application/json")

FormContentType ==
    /\ ~JsonContentType
    /\ \/ Includes(MediaType, "application/x-www-form-urlencoded")
       \/ Includes(MediaType, "multipart/form-data")

\* parseParams has read the body through c.req.json() / c.req.formData()
ReadJson == \E i \in 1..Len(parseTrace) : parseTrace[i].op = "json"
ReadFormData == \E i \in 1..Len(parseTrace) : parseTrace[i].op = "formData"

\* parseParams read the body and the read failed
BodyUndecoded ==
    \/ ReadJson /\ ~request.body.json.ok
    \/ ReadFormData /\ ~request.body.formData.ok

NoOptions == ~options.requires.given /\ ~options.selects.given

\* result has the keys of base and of over, with over's value where over has the key
IsOverlay(result, base, over) ==
    /\ DOMAIN result = DOMAIN base \cup DOMAIN over
    /\ \A k \in DOMAIN over : result[k] = over[k]
    /\ \A k \in DOMAIN base \ DOMAIN over : result[k] = base[k]

\* parseParams failed with StatusError(message, 400) and returned nothing
FailedWith400(message) ==
    /\ parseOutcome.state = "rejected"
    /\ parseOutcome.error.type = "StatusError"
    /\ parseOutcome.error.status = 400
    /\ parseOutcome.error.message = message
    /\ parseOutcome.result = EmptyObject

\* C12: with no requires and no selects, parseParams returns the query map
\* overlaid with the body fields (the body's value for a key in both) when the
\* content type is JSON or form data and the body decodes; for any other or
\* missing content type it returns the query map alone and does not read the body.
C12_QueryOverlaidWithBody ==
    NoOptions =>
        /\ (~JsonContentType /\ ~FormContentType) =>
              /\ ~ReadJson /\ ~ReadFormData
              /\ pPc = "done" =>
                    /\ parseOutcome.state = "fulfilled"
                    /\ parseOutcome.result = request.query
        /\ (JsonContentType /\ request.body.json.ok /\ pPc = "done") =>
              /\ parseOutcome.state = "fulfilled"
              /\ IsOverlay(parseOutcome.result, request.query, request.body.json.fields)
        /\ (FormContentType /\ request.body.formData.ok /\ pPc = "done") =>
              /\ parseOutcome.state = "fulfilled"
              /\ IsOverlay(parseOutcome.result, request.query,
                           request.body.formData.fields)

\* C13: when the content type is JSON and the body does not decode, parseParams
\* fails with StatusError 400 "Invalid JSON format in request body"; when it is
\* form data and the body does not decode, with StatusError 400 "Invalid form
\* data format"; no result is returned, whatever requires and selects are.
C13_UndecodableBodyFails400 ==
    pPc = "done" =>
        /\ (JsonContentType /\ ~request.body.json.ok) =>
              FailedWith400("Invalid JSON format in request body")
        /\ (FormContentType /\ ~request.body.formData.ok) =>
              FailedWith400("Invalid form data format")

\* the fields of the requires list that are absent, null or "" in the merged map
MissingRequired ==
    {i \in 1..Len(options.requires.list) :
        LET f == options.requires.list[i]
        IN  \/ f \notin DOMAIN params
            \/ params[f] = Null
            \/ params[f] = Str("")}

\* the fields the required-field loop looked up, in order
Examined ==
    LET entries == SelectSeq(parseTrace, LAMBDA e : e.op = "requires")
    IN  [i \in 1..Len(entries) |-> entries[i].field]

\* C14: with requires given (and the body, if read, decoded), parseParams fails
\* with StatusError 400 "Required field '<name>' is missing or empty" exactly
\* when some listed field is absent, null or "" in the merged map; <name> is the
\* first such field of the list, and the fields examined are the list up to it.
C14_FirstMissingRequiredFails ==
    (options.requires.given /\ pPc = "done" /\ ~BodyUndecoded) =>
        /\ parseOutcome.state = "rejected" <=> MissingRequired # {}
        /\ MissingRequired # {} =>
              LET first == CHOOSE i \in MissingRequired :
                              \A j \in MissingRequired : i <= j
                  name == options.requires.list[first]
              IN  /\ FailedWith400("Required field '" \o name \o "' is missing or empty")
                  /\ Examined = SubSeq(options.requires.list, 1, first)
        /\ MissingRequired = {} => Examined = options.requires.list

C14_Witness ==
    /\ pPc = "done"
    /\ options.requires = Given(<<"email", "age">>)
    /\ params = [k \in {"name", "email"} |-> IF k = "name" THEN Str("John") ELSE Str("")]
    /\ FailedWith400("Required field 'email' is missing or empty")
    /\ Examined = <<"email">>

\* the names a selects list holds
Listed == {options.selects.list[i] : i \in 1..Len(options.selects.list)}

\* C15: a non-empty selects makes parseParams return exactly the listed names
\* that the merged map has, each with its merged value; with selects omitted or
\* empty it returns the merged map unchanged.
C15_SelectsProjects ==
    (pPc = "done" /\ parseOutcome.state = "fulfilled") =>
        IF options.selects.given /\ options.selects.list # <<>>
        THEN /\ DOMAIN parseOutcome.result = Listed \cap DOMAIN params
             /\ \A k \in DOMAIN parseOutcome.result : parseOutcome.result[k] = params[k]
        ELSE parseOutcome.result = params

C15_Witness ==
    /\ pPc = "done"
    /\ options.selects = Given(<<"email", "phone">>)
    /\ DOMAIN params = {"name", "email", "age"}
    /\ parseOutcome.state = "fulfilled"
    /\ parseOutcome.result = [k \in {"email"} |-> Str("john@example.com")]

\* C16: requires is evaluated on the whole merged map before selects is
\* applied: a required field that is missing fails the call although selects
\* would have dropped it, a required field that is present but not selected
\* does not fail it, and after a requires failure nothing is projected or returned.
C16_RequiresBeforeSelects ==
    (options.requires.given /\ pPc = "done" /\ ~BodyUndecoded) =>
        /\ \A i, j \in 1..Len(parseTrace) :
              (parseTrace[i].op = "requires" /\ parseTrace[j].op = "selects") => i < j
        /\ MissingRequired # {} =>
              /\ parseOutcome.state = "rejected"
              /\ parseOutcome.result = EmptyObject
              /\ \A i \in 1..Len(parseTrace) : parseTrace[i].op # "selects"
        /\ MissingRequired = {} => parseOutcome.state = "fulfilled"

C16_Witness ==
    /\ pPc = "done"
    /\ options = [requires |-> Given(<<"name", "email">>), selects |-> Given(<<"name", "age">>)]
    /\ DOMAIN params = {"name"}
    /\ FailedWith400("Required field 'email' is missing or empty")

\* C17: the body format is detected from the content-type header without regard
\* to case and to a trailing charset clause: the body is read as JSON exactly
\* when the header names application/json in any case, and as form data exactly
\* when it names one of the two form types in any case.
C17_ContentTypeCaseInsensitive ==
    pPc # "start" =>
        /\ ReadJson <=> JsonContentType
        /\ ReadFormData <=> FormContentType

-----------------------------------------------------------------------------
(* Error renderer: properties *)

\* the error value has a status property (StatusError, or an object given one)
CarriesStatus == thrown.status # 0

\* the status the response is to have
ResolvedStatus == IF CarriesStatus THEN thrown.status ELSE 500

\* the error value has a message property
CarriesMessage == thrown.type \in {"Error", "StatusError", "object"}

\* {message} in a text: the message, or "undefined" for a value without one
MessageText == IF CarriesMessage THEN thrown.message ELSE "undefined"

\* the default JSON body, as an object and as the text sent
DefaultBody ==
    <<Property("status", Num(NumToString(ResolvedStatus))),
      Property("message", IF CarriesMessage THEN Str(thrown.message) ELSE Undefined)>>

DefaultBodyText ==
    "{\"status\":" \o NumToString(ResolvedStatus)
        \o (IF CarriesMessage THEN ",\"message\":\"" \o thrown.message \o "\"" ELSE "")
        \o "}"

\* C18: for every error value the response's status is the value's status
\* property when it has one and 500 otherwise; in JSON mode without a transform
\* the body is {status: <that status>, message: <the value's message>}.
C18_StatusResolvedAndDefaultJson ==
    rPc = "done" =>
        /\ rendered.state = "returned" => rendered.response.status = ResolvedStatus
        /\ (mode = "json" /\ hook = NoHook) =>
              /\ rendered.state = "returned"
              /\ rendered.response.body = DefaultBodyText

C18_Witness ==
    /\ rPc = "done"
    /\ thrown = StatusError("Not Found", 404)
    /\ mode = "json" /\ hook = NoHook
    /\ rendered.response.status = 404
    /\ rendered.response.body = "{\"status\":404,\"message\":\"Not Found\"}"

\* C19: with a transform in JSON or text mode the body is the transform's
\* output for the default body ({status, message}, "Error: {message}") and the
\* response's status is the resolved status whatever the transform returns,
\* also when the returned body has another status field.
C19_TransformLeavesStatus ==
    (rPc = "done" /\ mode \in {"json", "text"} /\ hook.kind = "function"
        /\ hook.does # "throws") =>
        /\ rendered.state = "returned"
        /\ rendered.response.status = ResolvedStatus
        /\ mode = "json" =>
              rendered.response.body =
                  JSONStringify(JsonTransform(hook.does, DefaultBody).value)
        /\ mode = "text" =>
              rendered.response.body =
                  TextTransform(hook.does, "Error: " \o MessageText).value

C19_Witness ==
    /\ rPc = "done"
    /\ thrown = StatusError("Not Found", 404)
    /\ mode = "json" /\ hook = Function("overrideStatus")
    /\ rendered.response.status = 404
    /\ rendered.response.body = "{\"status\":200,\"message\":\"Not Found\"}"

\* the template function throws for this error value
TemplateThrows ==
    mode = "html" /\ hook.kind = "function" /\ Component(hook.does, thrown).threw

\* C20: in HTML mode, when the template function throws, the renderer does not
\* throw: it returns the fallback "<h1>Error</h1><p>{message}</p>" with the
\* original error's message and resolved status (and logs the render failure).
C20_ThrowingTemplateFallsBack ==
    (rPc = "done" /\ TemplateThrows) =>
        /\ rendered.state = "returned"
        /\ rendered.response.body = "<h1>Error</h1><p>" \o MessageText \o "</p>"
        /\ rendered.response.status = ResolvedStatus
        /\ renderLog = <<"[ERROR] Failed to render template component:">>

C20_Witness ==
    /\ rPc = "done"
    /\ thrown = StatusError("Server Error", 500)
    /\ mode = "html" /\ hook = Function("BrokenComponent")
    /\ rendered.state = "returned"
    /\ rendered.response.body = "<h1>Error</h1><p>Server Error</p>"
    /\ rendered.response.status = 500

-----------------------------------------------------------------------------
(* Error renderers with a Context: properties *)

\* what each renderer writes to console.error for the original error
ErrorLabel ==
    CASE ctxMode = "json" -> "[ERROR] responeOfError:"
      [] ctxMode = "text" -> "[ERROR] responseTextError:"
      [] OTHER -> "[ERROR] responseTemplateError:"

-----------------------------------------------------------------------------
(* raceLogger.clone: properties *)

\* the value the clone is to use for a field: the override when given
CloneValue(field) ==
    IF overrides[field].given THEN overrides[field].value ELSE parentProps[field]

\* the request carries these values of the five fields
Carries(sent, source, url, table, name, zone) ==
    /\ sent.xcToken = source.value.str
    /\ sent.url = url \o "/api/v2/tables/" \o table \o "/records"
    /\ sent.body[1].topic = (IF name = "" THEN "undefined" ELSE name)
    /\ sent.body[1].begin_at.zone = zone

\* C22: the records of the clone use the override for every field given in
\* overrides and the parent's value for every field not given, each field
\* independently; the records the parent transmits after the clone was made
\* use the parent's own values.
C22_CloneUsesOverrides ==
    \A i \in 1..Len(cloneRequests) :
        IF cloneRequests[i].by = "clone"
        THEN Carries(cloneRequests[i].request, CloneValue("xcToken"),
                     CloneValue("baseUrl"), CloneValue("tableId"), CloneValue("topic"),
                     CloneValue("timezone"))
        ELSE Carries(cloneRequests[i].request, parentProps.xcToken, parentProps.baseUrl,
                     parentProps.tableId, parentProps.topic, parentProps.timezone)

-----------------------------------------------------------------------------
(* finalize-and-transmit: properties *)

\* sendRaceLog has finished after fetch resolved to a Response
TransmitAnswered == sendPc = "done" /\ fetched # 0

\* C23: once the POST was answered and finalize-and-transmit has finished, no
\* failure is logged when the response status is any 2xx, and a failure is
\* logged when it is any other status.
C23_Any2xxIsSuccess ==
    TransmitAnswered => (consoleLog = <<>> <=> fetched \in 200..299)

\* the token source has produced its value: a literal, or what the function
\* resolved to
TokenResolved ==
    /\ sendCalls >= 1
    /\ ValidBase(config.baseUrl)
    /\ config.xcToken.settle = "value"
    /\ sendPc # "awaitToken"

\* the resolved token is missing, empty or not a string
UnusableToken == config.xcToken.value.type # "string" \/ config.xcToken.value.str = ""

InvalidTokenEntry == [message |-> "Error RaceLoggerOnNocoDB Invalid xcToken for NocoDB",
                      status |-> 400]

\* C24: when the resolved token is missing, empty or not a string, sendRaceLog
\* has finished without a POST, the failure is the one entry logged, and the
\* caller's outcome is the operation's.
C24_UnusableTokenFailsTransmit ==
    (TokenResolved /\ UnusableToken) =>
        /\ posted = <<>>
        /\ sendPc = "done"
        /\ consoleLog = <<InvalidTokenEntry>>
        /\ callerOutcome = race

C24_Witness ==
    /\ config.xcToken = [kind |-> "function", settle |-> "value", value |-> Undefined]
    /\ sendPc = "done"
    /\ posted = <<>>
    /\ consoleLog = <<InvalidTokenEntry>>
    /\ callerOutcome = Fulfilled(Num("42"))

-----------------------------------------------------------------------------
(* StatusError: properties *)

\* the documented default messages
Documented ==
    (400 :> "Bad Request") @@ (401 :> "Unauthorized") @@ (403 :> "Forbidden")
        @@ (404 :> "Not Found") @@ (409 :> "Conflict") @@ (422 :> "Unprocessable Entity")
        @@ (429 :> "Too Many Requests") @@ (500 :> "Internal Server Error")
        @@ (502 :> "Bad Gateway") @@ (503 :> "Service Unavailable")

Constructed == seResult # Undefined

\* C25: a StatusError constructed from a bare status code has that status and
\* the documented default message of the code, "HTTP {status} Error" for a
\* code without one; constructed from a message alone it has status 500.
C25_DefaultsOfStatusError ==
    Constructed =>
        /\ seResult.type = "StatusError"
        /\ seMessage.type = "number" =>
              /\ seResult.status = seMessage.number
              /\ seResult.message =
                    IF seMessage.number \in DOMAIN Documented
                    THEN Documented[seMessage.number]
                    ELSE "HTTP " \o NumToString(seMessage.number) \o " Error"
        /\ (seMessage.type = "string" /\ ~seStatus.given) =>
              /\ seResult.status = 500
              /\ seResult.message = seMessage.text

C25_Witness ==
    /\ seMessage = NumberArgument(422)
    /\ seResult.status = 422
    /\ seResult.message = "Unprocessable Entity"

-----------------------------------------------------------------------------
(* Authentication gate: one invocation *)

\* the continuation was invoked once and no error response was emitted
Continued == nextCalls = 1 /\ responses = <<>>

\* one error response was emitted, the handler's promise is fulfilled with it,
\* and the continuation was not invoked
Refused ==
    /\ nextCalls = 0
    /\ Len(responses) = 1
    /\ gateOutcome = Fulfilled(responses[1])

\* C26: an invocation of the gate never both invokes the continuation and emits
\* an error response; when it has ended it has either invoked the continuation
\* exactly once and emitted no response, or emitted exactly one error response,
\* which its promise resolves to, without invoking the continuation.
C26_ContinueOrRefuse ==
    /\ ~(nextCalls >= 1 /\ responses # <<>>)
    /\ nextCalls <= 1
    /\ Len(responses) <= 1
    /\ gPc = "done" => (Continued \/ Refused)

-----------------------------------------------------------------------------
(* Execution tracer: phases *)

\* the operation has completed or thrown
OperationSettled == tPc \in {"completed", "failed"}

\* sendRaceLog was started
TransmitStarted == sendCalls >= 1

\* sendRaceLog was started and has finished
Logged == TransmitStarted /\ sendPc = "done"

\* NEW 0, RUNNING 1, COMPLETED and FAILED 2, LOGGED 3
PhaseRank(pc, logged) ==
    IF logged THEN 3 ELSE IF pc = "new" THEN 0 ELSE IF pc = "running" THEN 1 ELSE 2

\* a step moves the invocation forward by phases, never back, and never from
\* COMPLETED to FAILED or from FAILED to COMPLETED
PhaseStep ==
    /\ PhaseRank(tPc', Logged') >= PhaseRank(tPc, Logged)
    /\ tPc = "new" => tPc' \in {"new", "running"}
    /\ OperationSettled => tPc' = tPc
    /\ Logged' => OperationSettled'

\* the record, with its duration, is computed in the step in which the
\* operation completes or throws, from the clock of that step
DurationStep ==
    sendData' # sendData =>
        /\ tPc = "running"
        /\ OperationSettled'
        /\ sendData'.duration = now - raceLog.begin_at

\* one of the promises sendRaceLog awaits settles: the token source's, fetch's
\* or response.text()'s
Settle == TokenSettled \/ FetchSettled \/ TextSettled \/ TextRejected

\* the promises sendRaceLog may still have to await before it finishes
Awaits ==
    CASE sendPc = "awaitToken" -> 3
      [] sendPc = "awaitFetch" -> 2
      [] sendPc = "awaitText" -> 1
      [] OTHER -> 0

\* a settling promise takes sendRaceLog strictly closer to its end, and nothing
\* else moves it
TransmitStep ==
    (TransmitStarted /\ sendPc' # sendPc) => (Settle /\ Awaits' < Awaits)

\* C27: the phases of an invocation occur only in the order NEW, RUNNING,
\* COMPLETED or FAILED, LOGGED; sendRaceLog is not started while the operation
\* is running; the duration is computed only when the operation has completed
\* or thrown; and a started sendRaceLog that is not yet LOGGED is waiting for a
\* promise whose settling, success or failure, takes it strictly closer to
\* LOGGED, so that it is LOGGED once the token source and the POST have settled.
C27_PhasesInOrder ==
    /\ [][PhaseStep /\ DurationStep /\ TransmitStep]_vars
    /\ [](TransmitStarted => OperationSettled)
    /\ []((TransmitStarted /\ ~Logged) => (Awaits > 0 /\ ENABLED Settle))

C27_Witness ==
    /\ tPc = "failed"
    /\ Logged
    /\ fetched = 500
    /\ Len(consoleLog) = 1

-----------------------------------------------------------------------------
(* Two invocations in flight: properties *)

\* the line one call of utils.stdout or utils.stderr is to add
LineOf(texts) == Join([j \in DOMAIN texts |-> JsString(texts[j])], " ")

\* the text of the lines of these calls
TextOf(calls) == Join([j \in DOMAIN calls |-> LineOf(calls[j])], "\n")

\* C28: every record handed to fetch holds the stdout lines, the stderr lines
\* and the detail keys written through the utils of the invocation it is the
\* record of, and that invocation's start time and topic, whatever the other
\* invocation wrote in between.
C28_RecordsIsolated ==
    \A k \in 1..Len(pairPosted) :
        LET i == pairPosted[k].by
            record == pairPosted[k].request.body[1]
        IN  /\ record.stdout = TextOf(pairWritten[i].stdout)
            /\ record.stderr = TextOf(pairWritten[i].stderr)
            /\ record.detail = pairWritten[i].detail
            /\ record.begin_at = FormatTime(pairWritten[i].begin_at, pairProps[i].timezone)
            /\ record.topic = pairProps[i].topic

C28_Witness ==
    /\ pairPc = <<"awaitFetch", "awaitFetch">>
    /\ pairProps[2].topic = "admin-api"
    /\ Len(pairPosted) = 2
    /\ pairPosted[1].by = 2
    /\ pairPosted[1].request.body[1].stdout = "start"
    /\ pairPosted[1].request.body[1].begin_at = FormatTime(1, "Asia/Seoul")
    /\ pairPosted[2].request.body[1].stdout = ""
    /\ pairPosted[2].request.body[1].detail = [userCount |-> Num("3")]
    /\ pairPosted[2].request.body[1].begin_at = FormatTime(0, "Asia/Seoul")

-----------------------------------------------------------------------------
(* Error renderer without a context: every error value *)

\* the transform of the caller throws
TransformThrows == mode \in {"json", "text"} /\ hook = Function("throws")

-----------------------------------------------------------------------------
(* Execution tracer: the record and later utils calls *)

\* C30: the record handed to fetch holds the stdout lines, the stderr lines and
\* the detail map as they were when the operation completed or threw, whatever
\* was written through utils afterwards, for a literal and for a function
\* token source.
C30_RecordFrozenAtSettle ==
    \A k \in 1..Len(posted) :
        /\ posted[k].body[1].stdout = Join(settledLog.stdout, "\n")
        /\ posted[k].body[1].stderr = Join(settledLog.stderr, "\n")
        /\ posted[k].body[1].detail = settledLog.detail

====
